---- MODULE Spec2Model ----
(***************************************************************************)
(* The interactive 3D/2D drillhole viewport (SceneCanvas) together with    *)
(* the slice of the application state that feeds it (SceneViewport and the *)
(* workspaces that edit the project).                                      *)
(*                                                                         *)
(* Numbers.  The program computes in IEEE doubles; the model computes in   *)
(* fixed point.  Lengths and coordinates are in hundredths of a metre      *)
(* (M(10) is 10 m), direction components and sines in thousandths, the     *)
(* orthographic zoom and the viewport aspect in hundredths.                *)
(*                                                                         *)
(* React.  A state update re-renders SceneCanvas and then runs, in source  *)
(* order, the effects whose dependencies changed; the model does both in   *)
(* the action of the handler that made the update (Commit).                *)
(***************************************************************************)
EXTENDS Integers, Sequences, FiniteSets, TLC

----------------------------------------------------------------------------
(* Bounds of the model *)

MaxHoles == 2
MaxIntervals == 1
MaxHoverQueue == 2

----------------------------------------------------------------------------
(* Values *)

(* null and undefined among strings; a frame-callback handle is a positive *)
(* integer and 0 stands for null.  The value of an optional numeric field  *)
(* is a sequence: <<>> when the field is absent, <<n>> for the finite      *)
(* number n, and a pair for a value that is present and no finite number:  *)
(* NaN, an infinity, or a string of digits as a hand-edited file may hold  *)
NULL == "null"
NoValue == "undefined"
Absent == <<>>
Num(n) == <<n>>
NotANumber == << 0, 1 >>
Infinite == << 0, 2 >>
NumericString(n) == << n, 3 >>

M(n) == n * 100

Vec(x, y, z) == [x |-> x, y |-> y, z |-> z]

Max2(a, b) == IF a >= b THEN a ELSE b
Min2(a, b) == IF a <= b THEN a ELSE b
Max3(a, b, c) == Max2(a, Max2(b, c))

(* the integer square root of n, sought in lo..hi by bisection *)
RECURSIVE ISqrtIn(_, _, _)
ISqrtIn(n, lo, hi) ==
    IF lo >= hi THEN lo
    ELSE LET mid == (lo + hi + 1) \div 2
         IN  IF mid * mid <= n THEN ISqrtIn(n, mid, hi) ELSE ISqrtIn(n, lo, mid - 1)

ISqrt(n) == ISqrtIn(n, 0, 2000)

(* sin of a whole number of degrees in [0, 360), in thousandths; the       *)
(* model's holes use multiples of 30 degrees, and 10 degrees off north     *)
SinQ(d) ==
    CASE d = 0 -> 0
      [] d = 10 -> 174
      [] d = 30 -> 500
      [] d = 60 -> 866
      [] d = 80 -> 985
      [] d = 90 -> 1000

SinE3(d) ==
    IF d <= 90 THEN SinQ(d)
    ELSE IF d <= 180 THEN SinQ(180 - d)
    ELSE IF d <= 270 THEN -SinQ(d - 180)
    ELSE -SinQ(360 - d)

CosE3(d) == SinE3((d + 90) % 360)

(* JavaScript's remainder takes the sign of the dividend *)
JsRem(a, n) == IF a >= 0 THEN a % n ELSE -((-a) % n)

----------------------------------------------------------------------------
(* Geometry kernel *)

(* a test that takes every value that is present for a number *)
IsFiniteNumberAnyValue(v) == v # Absent

(* typeof v === "number" && Number.isFinite(v) *)
IsFiniteNumber(v) == Len(v) = 1

(* a normalization that drops the sign of the remainder *)
normalizeAzimuthDegAbs(a) == IF JsRem(a, 360) < 0 THEN -JsRem(a, 360) ELSE JsRem(a, 360)

normalizeAzimuthDeg(a) == JsRem(JsRem(a, 360) + 360, 360)

(* a clamp with max and min exchanged *)
clampInclinationDownDegSwapped(incRaw) == Min2(-90, Max2(0, incRaw))

clampInclinationDownDeg(incRaw) == Max2(-90, Min2(0, incRaw))

(* v.normalize(), with the fallback for a vector of no length *)
UnitOrDown(v, len) ==
    IF len = 0 THEN Vec(0, -1000, 0)
    ELSE Vec((v.x * 1000) \div len, (v.y * 1000) \div len, (v.z * 1000) \div len)

VecLength(v) == ISqrt(v.x * v.x + v.y * v.y + v.z * v.z)

(* DirFromAngles with azimuth counted from east (+X) *)
DirFromAnglesFromEast(az, inc, hMag) ==
    Vec((hMag * CosE3(az)) \div 1000, -SinE3(-inc), (hMag * SinE3(az)) \div 1000)

(* DirFromAngles with the sign of y lost *)
DirFromAnglesUp(az, inc, hMag) ==
    Vec((hMag * SinE3(az)) \div 1000, SinE3(-inc), (hMag * CosE3(az)) \div 1000)

(* the direction for a normalized azimuth az and a clamped inclination inc *)
DirFromAngles(az, inc, hMag) ==
    Vec((hMag * SinE3(az)) \div 1000, -SinE3(-inc), (hMag * CosE3(az)) \div 1000)

DirOf(v) == UnitOrDown(v, VecLength(v))

azRawOf(h) == IF IsFiniteNumber(h.azimuth) THEN h.azimuth[1] ELSE 0
incRawOf(h) == IF IsFiniteNumber(h.inclination) THEN h.inclination[1] ELSE -90

drillDirAt(az, inc) == DirOf(DirFromAngles(az, inc, CosE3(-inc)))

drillDirFromAzInc(h) ==
    drillDirAt(normalizeAzimuthDeg(azRawOf(h)), clampInclinationDownDeg(incRawOf(h)))

(* THREE.Box3.expandByPoint on a box kept as [min, max]; a new Box3 is     *)
(* empty                                                                   *)
EmptyBox == [empty |-> TRUE, min |-> Vec(0, 0, 0), max |-> Vec(0, 0, 0)]

expandByPoint(box, p) ==
    IF box.empty THEN [empty |-> FALSE, min |-> p, max |-> p]
    ELSE [empty |-> FALSE,
          min |-> Vec(Min2(box.min.x, p.x), Min2(box.min.y, p.y), Min2(box.min.z, p.z)),
          max |-> Vec(Max2(box.max.x, p.x), Max2(box.max.y, p.y), Max2(box.max.z, p.z))]

HoleTop(h) == h.collar

(* top.clone().add(dir.multiplyScalar(depth)) *)
AddScaled(top, dir, depth) ==
    Vec(top.x + (dir.x * depth) \div 1000,
        top.y + (dir.y * depth) \div 1000,
        top.z + (dir.z * depth) \div 1000)

(* the bottom of a hole taken straight below its collar, whatever its      *)
(* orientation                                                             *)
HoleBottomVertical(h) == Vec(h.collar.x, h.collar.y - Max2(0, h.depth), h.collar.z)

HoleBottom(h) == AddScaled(HoleTop(h), drillDirFromAzInc(h), Max2(0, h.depth))

RECURSIVE BoundsFrom(_, _, _)
BoundsFrom(drillholes, i, box) ==
    IF i > Len(drillholes) THEN box
    ELSE BoundsFrom(drillholes, i + 1,
                    expandByPoint(expandByPoint(box, HoleTop(drillholes[i])),
                                  HoleBottom(drillholes[i])))

(* computeDrillholeBounds without the null result for an empty list *)
computeDrillholeBoundsNoSentinel(drillholes) == << BoundsFrom(drillholes, 1, EmptyBox) >>

(* <<>> stands for the null result, <<box>> for a box *)
computeDrillholeBounds(drillholes) ==
    IF Len(drillholes) = 0 THEN <<>> ELSE << BoundsFrom(drillholes, 1, EmptyBox) >>

BoxCenter(box) ==
    Vec((box.min.x + box.max.x) \div 2, (box.min.y + box.max.y) \div 2,
        (box.min.z + box.max.z) \div 2)

BoxSize(box) ==
    Vec(box.max.x - box.min.x, box.max.y - box.min.y, box.max.z - box.min.z)

----------------------------------------------------------------------------
(* Dual camera manager: fit-to-bounds and camera state snapshots *)

Fov == 55

(* tan(fov / 2) in thousandths *)
TanHalfE3(fov) == CASE fov = 55 -> 521

cloneState(pos, tgt, zoom) == [position |-> pos, target |-> tgt, zoom |-> zoom]

(* cam.position.copy, controls.target.copy, and the zoom of an             *)
(* orthographic camera when the state carries one; controls.update() then  *)
(* re-derives the same pose.  Returns the camera and its controller.       *)
applyState(cam, controls, st) ==
    [cam |-> IF cam.isOrthographicCamera /\ st.zoom # Absent
             THEN [cam EXCEPT !.position = st.position, !.zoom = st.zoom[1]]
             ELSE [cam EXCEPT !.position = st.position],
     controls |-> [controls EXCEPT !.target = st.target]]

(* the view distance for a box of the given size: the larger of the       *)
(* distances the horizontal and the vertical span need, times 1.35         *)
DistFor(span, fov) == ((span \div 2) * 1000) \div TanHalfE3(fov)

PerspectiveDist(size, fov) ==
    (Max2(DistFor(Max3(size.x, size.z, M(10)), fov),
          DistFor(Max2(size.y, M(10)), fov)) * 135) \div 100

PlacePerspective(cam, controls, center, dist, viewportAspect) ==
    [cam |-> [cam EXCEPT
                !.position = Vec(center.x + dist, center.y + (dist * 65) \div 100,
                                 center.z + dist),
                !.aspect = viewportAspect],
     controls |-> [controls EXCEPT !.target = center]]

fitPerspectiveToBounds(cam, controls, box, viewportAspect) ==
    PlacePerspective(cam, controls, BoxCenter(box),
                     PerspectiveDist(BoxSize(box), cam.fov), viewportAspect)

(* the half-height for a box of the given size: its north-south span, at   *)
(* least 10, with 1.25 padding                                             *)
OrthoHalfH(size) == (Max2(M(10), size.z) * 125) \div 200

PlaceOrtho(cam, controls, center, size, halfH, halfW) ==
    [orthoHalfH |-> halfH,
     cam |-> [cam EXCEPT
                !.left = -halfW, !.right = halfW, !.top = halfH, !.bottom = -halfH,
                !.position = Vec(center.x, center.y + Max2(M(200), size.y + M(200)),
                                 center.z),
                !.zoom = 100],
     controls |-> [controls EXCEPT !.enableRotate = FALSE, !.target = center]]

fitOrthoToBounds(cam, controls, box, viewportAspect) ==
    PlaceOrtho(cam, controls, BoxCenter(box), BoxSize(box), OrthoHalfH(BoxSize(box)),
               (OrthoHalfH(BoxSize(box)) * viewportAspect) \div 100)

----------------------------------------------------------------------------
(* Scene builder and picking *)

makeDrillholeMesh(h, selected) ==
        [userData |-> [id |-> h.id],
         selected |-> selected,
         children |-> << [kind |-> "drillhole", dir |-> drillDirFromAzInc(h),
                          length |-> Max2(1, h.depth)],
                         [kind |-> "collar", dir |-> Vec(0, 0, 0), length |-> 0],
                         [kind |-> "collar", dir |-> Vec(0, 0, 0), length |-> 0] >>]

(* Nodes of the scene graph: the scene, the drillholes group under it, one *)
(* group per hole under that (g = its index), three meshes under each      *)
(* (m = 1..3); the grid group under the scene and the grid helper in it.   *)
SceneNode == [kind |-> "scene", g |-> 0, m |-> 0]
GridGroupNode == [kind |-> "gridGroup", g |-> 0, m |-> 0]
GridNode == [kind |-> "grid", g |-> 0, m |-> 0]
DrillholesNode == [kind |-> "drillholes", g |-> 0, m |-> 0]
GroupNode(g) == [kind |-> "group", g |-> g, m |-> 0]
MeshNode(g, m) == [kind |-> "mesh", g |-> g, m |-> m]
NullNode == [kind |-> "null", g |-> 0, m |-> 0]

ParentOf(o) ==
    CASE o.kind = "mesh" -> GroupNode(o.g)
      [] o.kind = "group" -> DrillholesNode
      [] o.kind = "drillholes" -> SceneNode
      [] o.kind = "grid" -> GridGroupNode
      [] o.kind = "gridGroup" -> SceneNode
      [] o.kind = "scene" -> NullNode

(* o.userData.id, NoValue where the node carries none *)
UserDataId(o, dg) == IF o.kind = "group" THEN dg[o.g].userData.id ELSE NoValue

(* JavaScript truthiness of an id *)
Truthy(id) == id \notin {NULL, NoValue, ""}

(* pickIdFromObject without the walk to the ancestors *)
pickIdFromObjectNoWalk(obj, dg) ==
    IF obj = NullNode THEN NULL
    ELSE IF Truthy(UserDataId(obj, dg)) THEN UserDataId(obj, dg)
    ELSE NULL

RECURSIVE pickIdFromObject(_, _)
pickIdFromObject(obj, dg) ==
    IF obj = NullNode THEN NULL
    ELSE IF Truthy(UserDataId(obj, dg)) THEN UserDataId(obj, dg)
    ELSE pickIdFromObject(ParentOf(obj), dg)

(* the id of the nearest hit, NULL without a hit *)
PickId(hits, dg) == IF hits = <<>> THEN NULL ELSE pickIdFromObject(hits[1], dg)

(* What a ray meets, nearest first, is a sequence of things: the grid, or *)
(* mesh m of the hole with the given id.                                   *)
GridThing == [kind |-> "grid", id |-> "", m |-> 0]
MeshThing(id, m) == [kind |-> "mesh", id |-> id, m |-> m]

(* the group of the drillhole group built for the hole id, 0 without one *)
GroupOf(dg, id) ==
    IF \E g \in 1..Len(dg) : dg[g].userData.id = id
    THEN CHOOSE g \in 1..Len(dg) : dg[g].userData.id = id
    ELSE 0

(* the things of a ray that are objects below the drillhole group *)
RECURSIVE HitsAlong(_, _)
HitsAlong(dg, ray) ==
    IF ray = <<>> THEN <<>>
    ELSE IF Head(ray).kind = "mesh" /\ GroupOf(dg, Head(ray).id) # 0
    THEN << MeshNode(GroupOf(dg, Head(ray).id), Head(ray).m) >> \o HitsAlong(dg, Tail(ray))
    ELSE HitsAlong(dg, Tail(ray))

(* a ray cast that tests the grid too, when the grid is the nearest thing  *)
IntersectWithGrid(dg, ev) ==
    IF ev.ray # <<>> /\ Head(ev.ray).kind = "grid"
    THEN << GridNode >> \o HitsAlong(dg, Tail(ev.ray))
    ELSE HitsAlong(dg, ev.ray)

(* raycaster.intersectObjects(drillGroup.children, true): the hits of the  *)
(* event's ray, nearest first; only objects below the drillhole group are  *)
(* tested                                                                  *)
IntersectDrillGroup(dg, ev) == HitsAlong(dg, ev.ray)

----------------------------------------------------------------------------
(* State *)

VARIABLES
    (* AppState, as far as the viewport reads it *)
    holes,          \* state.project.drillholes
    view,           \* state.view
    selection,      \* state.selection.drillholeId
    intervalId,     \* state.selection.intervalId
    showGrid,       \* state.scene.showGrid
    showTerrain,    \* state.scene.showTerrain
    theme,          \* state.theme, which fixes the theme tokens
    (* SceneCanvas *)
    mounted,        \* between the mount effect and its cleanup
    hostAspect,     \* host.clientWidth / host.clientHeight, in hundredths
    cam3D, controls3D, cam2D, controls2D,
    activeCamera, activeControls,
    camState3D, camState2D,
    orthoHalfH,
    drillGroup, gridGroup,
    listeners,      \* the event listeners the component has registered
    rafQueue,       \* the browser's pending animation-frame callbacks
    rafRef, hoverRAFRef,
    hoverId, tooltip,
    (* what the last step did *)
    lastOp,         \* the handler that ran
    selectCalls,    \* the arguments of the onSelect calls it made
    frameLog,       \* render ticks run and hover rays cast by the last frame, what
                    \* the ticks did, where the rays were cast and where the
                    \* pointer-move just handled was
    trip3D, trip2D  \* the camera a view switch left behind

appVars == <<holes, view, selection, intervalId, showGrid, showTerrain, theme>>
camVars == <<cam3D, controls3D, cam2D, controls2D, camState3D, camState2D, orthoHalfH>>
activeVars == <<activeCamera, activeControls>>
sceneVars == <<drillGroup, gridGroup>>
frameVars == <<rafQueue, rafRef, hoverRAFRef>>
hoverVars == <<hoverId, tooltip>>
obsVars == <<lastOp, selectCalls, frameLog>>
tripVars == <<trip3D, trip2D>>

vars == <<appVars, mounted, hostAspect, camVars, activeVars, sceneVars, listeners,
          frameVars, hoverVars, obsVars, tripVars>>

----------------------------------------------------------------------------
(* The project data the model draws from *)

HoleIndex == 1..MaxHoles

IdOf(i) ==
    CASE i = 1 -> "DH-1"
      [] i = 2 -> "DH-2"
      [] i = 3 -> "DH-3"
      [] OTHER -> "DH-4"

HoleIds == {IdOf(i) : i \in HoleIndex}

IndexOfId(id) == CHOOSE i \in HoleIndex : IdOf(i) = id

CollarOf(i) == Vec(M(30) * (i - 1), M(2) * (i - 1), M(40) * (i - 1))

Depths == {M(20)}

Aspects == {150}

(* a hole as the create form makes it: id, depth and collar only *)
DraftHole(i, depth) ==
    [id |-> IdOf(i), collar |-> CollarOf(i), depth |-> depth,
     azimuth |-> Absent, inclination |-> Absent, intervals |-> 0]

(* a hole of a project file, which may carry an orientation *)
FileHole(i) ==
    [id |-> IdOf(i), collar |-> CollarOf(i), depth |-> M(40),
     azimuth |-> CASE i = 1 -> Absent [] i = 2 -> Num(90) [] OTHER -> Num(-150),
     inclination |-> CASE i = 1 -> Absent [] i = 2 -> Num(-60) [] OTHER -> Num(-30),
     intervals |-> IF i = 1 THEN MaxIntervals ELSE 0]

(* makeBlankProject().drillholes *)
BlankProject == <<>>

ProjectFiles == { BlankProject, [i \in HoleIndex |-> FileHole(i)] }

(* Orientations a project file can carry: azimuths and inclinations in and *)
(* out of range, in whole degrees, and none at all                         *)
KernelAzimuths == {-390, -360, -180, -10, 0, 10, 90, 180, 270, 350, 360, 730}

KernelInclinations == {-200, -90, -60, -30, 0, 10, 90}

KernelHole(az, inc) ==
    [id |-> IdOf(1), collar |-> CollarOf(1), depth |-> M(40),
     azimuth |-> az, inclination |-> inc, intervals |-> 0]

(* the projects of one hole with such an orientation *)
KernelProjects ==
    { << KernelHole(az, inc) >> :
          az \in {Absent} \cup {Num(a) : a \in KernelAzimuths},
          inc \in {Absent} \cup {Num(i) : i \in KernelInclinations} }

(* those that carry an azimuth or an inclination, not both *)
AngleProjects ==
    { << KernelHole(Num(a), Absent) >> : a \in KernelAzimuths }
        \cup { << KernelHole(Absent, Num(i)) >> : i \in KernelInclinations }

(* Holes for the bounds: depths above, at and below zero, and orientations *)
(* <<azimuth, inclination>> that are absent, finite, or present and no     *)
(* finite number                                                           *)
BoundsDepths == {-M(5), 0, M(20), M(40)}

BoundsOrientations ==
    { << Absent, Absent >>, << Num(0), Num(-90) >>, << Num(90), Num(-60) >>,
      << NotANumber, Num(-60) >>, << Num(90), Infinite >>,
      << NumericString(90), NumericString(-60) >>, << Absent, Num(-30) >>,
      << Num(270), Absent >> }

BoundsHole(i, depth, o) ==
    [id |-> IdOf(i), collar |-> CollarOf(i), depth |-> depth,
     azimuth |-> o[1], inclination |-> o[2], intervals |-> 0]

(* the projects of one such hole at the origin, alone or before a second   *)
(* hole away from it                                                       *)
BoundsProjects ==
    { << BoundsHole(1, depth, o) >> : depth \in BoundsDepths, o \in BoundsOrientations }
        \cup { << BoundsHole(1, depth, o), BoundsHole(2, M(20), o2) >> :
                  depth \in BoundsDepths, o \in BoundsOrientations,
                  o2 \in { << Absent, Absent >>, << Num(270), Num(-30) >> } }
        \cup { BlankProject }

HoleById(hs, id) ==
    LET is == {i \in 1..Len(hs) : hs[i].id = id}
    IN  IF is = {} THEN <<>> ELSE << hs[CHOOSE i \in is : \A j \in is : i <= j] >>

HasHole(hs, id) == \E i \in 1..Len(hs) : hs[i].id = id

(* Array.prototype.filter *)
RECURSIVE FilterOut(_, _)
FilterOut(hs, id) ==
    IF hs = <<>> THEN <<>>
    ELSE IF Head(hs).id = id THEN FilterOut(Tail(hs), id)
    ELSE <<Head(hs)>> \o FilterOut(Tail(hs), id)

(* sortDrillholes(holes, "id", "asc")[0].id; the model's ids compare as    *)
(* their indices do                                                        *)
FirstIdAsc(hs) ==
    IdOf(CHOOSE i \in HoleIndex :
            /\ HasHole(hs, IdOf(i))
            /\ \A j \in HoleIndex : HasHole(hs, IdOf(j)) => i <= j)

----------------------------------------------------------------------------
(* The props SceneViewport hands to SceneCanvas *)

SelectedExists(hs, sel) == IF sel = NULL THEN TRUE ELSE HasHole(hs, sel)

SelectedIdProp(hs, sel) == IF sel # NULL /\ SelectedExists(hs, sel) THEN sel ELSE NULL

PropsOf(hs, v, sel, grid) ==
    [holes |-> hs, view |-> v, selectedId |-> SelectedIdProp(hs, sel), showGrid |-> grid]

Props == PropsOf(holes, view, selection, showGrid)

projectSig(hs) ==
    [i \in 1..Len(hs) |->
        << hs[i].id, hs[i].collar, hs[i].depth,
           IF IsFiniteNumber(hs[i].azimuth) THEN hs[i].azimuth[1] ELSE 0,
           IF IsFiniteNumber(hs[i].inclination) THEN hs[i].inclination[1] ELSE -90 >>]

(* the refs the key handlers read; their sync effects run in every commit  *)
selectedIdRef == Props.selectedId
projectRef == holes

----------------------------------------------------------------------------
(* The effects of SceneCanvas, as functions of its state *)

Canvas ==
    [cam3D |-> cam3D, controls3D |-> controls3D, cam2D |-> cam2D,
     controls2D |-> controls2D, activeCamera |-> activeCamera,
     activeControls |-> activeControls, camState3D |-> camState3D,
     camState2D |-> camState2D, orthoHalfH |-> orthoHalfH,
     drillGroup |-> drillGroup, gridGroup |-> gridGroup, listeners |-> listeners,
     rafQueue |-> rafQueue, hoverRAFRef |-> hoverRAFRef]

SetCanvas(s) ==
    /\ cam3D' = s.cam3D
    /\ controls3D' = s.controls3D
    /\ cam2D' = s.cam2D
    /\ controls2D' = s.controls2D
    /\ activeCamera' = s.activeCamera
    /\ activeControls' = s.activeControls
    /\ camState3D' = s.camState3D
    /\ camState2D' = s.camState2D
    /\ orthoHalfH' = s.orthoHalfH
    /\ drillGroup' = s.drillGroup
    /\ gridGroup' = s.gridGroup
    /\ listeners' = s.listeners
    /\ rafQueue' = s.rafQueue
    /\ hoverRAFRef' = s.hoverRAFRef

(* the rebuild without drillGroup.clear() *)
RebuildEffectNoClear(s, p) ==
    [s EXCEPT
        !.gridGroup = IF p.showGrid THEN << "GridHelper" >> ELSE <<>>,
        !.drillGroup = s.drillGroup \o
                       [i \in 1..Len(p.holes) |->
                          makeDrillholeMesh(p.holes[i], p.holes[i].id = p.selectedId)]]

(* rebuild objects *)
RebuildEffect(s, p) ==
    [s EXCEPT
        !.gridGroup = IF p.showGrid THEN << "GridHelper" >> ELSE <<>>,
        !.drillGroup = [i \in 1..Len(p.holes) |->
                          makeDrillholeMesh(p.holes[i], p.holes[i].id = p.selectedId)]]

RebuildDepsChanged(p0, p1) ==
    \/ projectSig(p0.holes) # projectSig(p1.holes)
    \/ p0.showGrid # p1.showGrid
    \/ p0.selectedId # p1.selectedId

(* both fits against one box, then both saved states: the body shared by   *)
(* the auto-fit effect and focusHole                                       *)
(* SaveFits without the two snapshots *)
SaveFitsKeepSaved(s, f3, f2) ==
    [s EXCEPT
        !.cam3D = f3.cam, !.controls3D = f3.controls,
        !.cam2D = f2.cam, !.controls2D = f2.controls,
        !.orthoHalfH = f2.orthoHalfH]

SaveFits(s, f3, f2) ==
    [s EXCEPT
        !.cam3D = f3.cam, !.controls3D = f3.controls,
        !.cam2D = f2.cam, !.controls2D = f2.controls,
        !.orthoHalfH = f2.orthoHalfH,
        !.camState3D = cloneState(f3.cam.position, f3.controls.target, Absent),
        !.camState2D = cloneState(f2.cam.position, f2.controls.target, Num(f2.cam.zoom))]

FitBoth(s, box, aspect) ==
    SaveFits(s, fitPerspectiveToBounds(s.cam3D, s.controls3D, box, aspect),
                fitOrthoToBounds(s.cam2D, s.controls2D, box, aspect))

(* bounds: <<>> for null *)
FitIfBounds(s, bounds, aspect) ==
    IF bounds = <<>> THEN s ELSE FitBoth(s, bounds[1], aspect)

(* auto-fit *)
AutoFitEffect(s, p, aspect) == FitIfBounds(s, computeDrillholeBounds(p.holes), aspect)

(* an auto-fit effect that runs after every render *)
AutoFitDepsChangedAlways(p0, p1, newArray) == TRUE

(* the dependency list [projectSig, project.drillholes]: the signature, or *)
(* the identity of the drillholes array                                    *)
AutoFitDepsChanged(p0, p1, newArray) ==
    \/ projectSig(p0.holes) # projectSig(p1.holes)
    \/ newArray

(* selection highlight *)
SelectionHighlightEffect(s, p) ==
    [s EXCEPT !.drillGroup =
        [i \in 1..Len(s.drillGroup) |->
            [s.drillGroup[i] EXCEPT
                !.selected = (Truthy(s.drillGroup[i].userData.id)
                              /\ s.drillGroup[i].userData.id = p.selectedId)]]]

(* view switching: snapshot the active camera, then activate and restore   *)
(* the camera of the requested view                                        *)
(* ViewSnapshot that saves the state of both cameras *)
ViewSnapshotBoth(s) ==
    [s EXCEPT !.camState3D = cloneState(s.cam3D.position, s.controls3D.target, Absent),
              !.camState2D = cloneState(s.cam2D.position, s.controls2D.target,
                                        Num(s.cam2D.zoom))]

ViewSnapshot(s) ==
    IF s.activeCamera = "cam3D"
    THEN [s EXCEPT !.camState3D = cloneState(s.cam3D.position, s.controls3D.target, Absent)]
    ELSE IF s.activeCamera = "cam2D"
    THEN [s EXCEPT !.camState2D = cloneState(s.cam2D.position, s.controls2D.target,
                                             Num(s.cam2D.zoom))]
    ELSE s

Activate3D(s, r) ==
    [s EXCEPT !.activeCamera = "cam3D", !.activeControls = "controls3D",
              !.cam3D = r.cam, !.controls3D = r.controls]

Activate2D(s, r) ==
    [s EXCEPT !.activeCamera = "cam2D", !.activeControls = "controls2D",
              !.cam2D = r.cam, !.controls2D = r.controls]

(* ViewActivate with rotation permitted in the plan view too *)
ViewActivateRotateAlways(s, p) ==
    IF p.view = "view3d"
    THEN Activate3D(s, applyState(s.cam3D, [s.controls3D EXCEPT !.enableRotate = TRUE],
                                  s.camState3D))
    ELSE Activate2D(s, applyState(s.cam2D, [s.controls2D EXCEPT !.enableRotate = TRUE],
                                  s.camState2D))

ViewActivate(s, p) ==
    IF p.view = "view3d"
    THEN Activate3D(s, applyState(s.cam3D, [s.controls3D EXCEPT !.enableRotate = TRUE],
                                  s.camState3D))
    ELSE Activate2D(s, applyState(s.cam2D, [s.controls2D EXCEPT !.enableRotate = FALSE],
                                  s.camState2D))

ViewEffect(s, p) == ViewActivate(ViewSnapshot(s), p)

(* selection via raycast: the effect re-registers its listener *)
PointerDownEffect(s) ==
    [s EXCEPT !.listeners = (s.listeners \ {"pointerdown"}) \cup {"pointerdown"}]

(* cancelAnimationFrame *)
CancelFrame(queue, handle) == SelectSeq(queue, LAMBDA cb : cb.id # handle)

(* hover tooltip: the cleanup of the previous run, then the new listeners *)
HoverCleanup(s) ==
    [s EXCEPT
        !.listeners = s.listeners \ {"pointermove", "pointerleave"},
        !.rafQueue = IF s.hoverRAFRef # 0 THEN CancelFrame(s.rafQueue, s.hoverRAFRef)
                     ELSE s.rafQueue,
        !.hoverRAFRef = 0]

HoverSetup(s) ==
    [s EXCEPT !.listeners = s.listeners \cup {"pointermove", "pointerleave"}]

HoverEffect(s) == HoverSetup(HoverCleanup(s))

(* One render of SceneCanvas with props p1 after props p0, and the effects *)
(* whose dependencies changed, in source order.  newArray: the update made *)
(* a new project.drillholes array.  onSelect is a new function in every    *)
(* render of SceneViewport, so the pointerdown effect always runs.         *)
RunRebuild(s, p0, p1) == IF RebuildDepsChanged(p0, p1) THEN RebuildEffect(s, p1) ELSE s

RunAutoFit(s, p0, p1, newArray, aspect) ==
    IF AutoFitDepsChanged(p0, p1, newArray) THEN AutoFitEffect(s, p1, aspect) ELSE s

RunHighlight(s, p0, p1) ==
    IF p0.selectedId # p1.selectedId THEN SelectionHighlightEffect(s, p1) ELSE s

RunView(s, p0, p1) == IF p0.view # p1.view THEN ViewEffect(s, p1) ELSE s

RunHover(s, newArray) == IF newArray THEN HoverEffect(s) ELSE s

Commit(s, p0, p1, newArray, aspect) ==
    RunHover(
        PointerDownEffect(
            RunView(
                RunHighlight(
                    RunAutoFit(RunRebuild(s, p0, p1), p0, p1, newArray, aspect),
                    p0, p1),
                p0, p1)),
        newArray)

----------------------------------------------------------------------------
(* Inputs *)

(* poses the orbit controllers can bring their cameras to *)
Orbit3DPoses ==
    { [position |-> Vec(M(10), M(20), M(30)), target |-> Vec(0, 0, 0)],
      [position |-> Vec(-M(5), M(8), M(12)), target |-> Vec(M(1), 0, M(2))] }

Plan2DPoses ==
    { [position |-> Vec(M(3), M(200), M(4)), target |-> Vec(M(3), 0, M(4)), zoom |-> 200],
      [position |-> Vec(-M(7), M(200), 0), target |-> Vec(-M(7), 0, 0), zoom |-> 50] }

(* Pointer events: where the pointer is (clientX) fixes what the ray      *)
(* through it meets.  A click may meet the grid in front of a mesh or one  *)
(* hole in front of another; a pointer-move meets nothing, the grid or the *)
(* cylinder of a hole.                                                     *)
Rays ==
    {<<>>, << GridThing >>}
        \cup {<< MeshThing(id, m) >> : id \in HoleIds, m \in 1..3}
        \cup {<< GridThing, MeshThing(id, m) >> : id \in HoleIds, m \in 1..3}
        \cup {<< MeshThing(p[1], 1), MeshThing(p[2], 1) >> :
                  p \in {q \in HoleIds \X HoleIds : q[1] # q[2]}}

ThingCode(t) == IF t.kind = "grid" THEN 0 ELSE 3 * (IndexOfId(t.id) - 1) + t.m

ClientXOf(ray) ==
    CASE Len(ray) = 0 -> 0
      [] Len(ray) = 1 -> 1 + ThingCode(ray[1])
      [] OTHER -> 100 + 20 * ThingCode(ray[1]) + ThingCode(ray[2])

PointerEventAt(ray) == [ray |-> ray, clientX |-> ClientXOf(ray)]

PointerEvents == {PointerEventAt(ray) : ray \in Rays}

MoveEvents ==
    {PointerEventAt(ray) : ray \in {<<>>, << GridThing >>}
                                      \cup {<< MeshThing(id, 1) >> : id \in HoleIds}}

NoEvent == PointerEventAt(<<>>)


----------------------------------------------------------------------------
(* Init: the component mounted on the default application state *)

ZeroLog == [ticks |-> 0, casts |-> 0, steps |-> <<>>, castX |-> <<>>, moveX |-> <<>>]
TripNone == [phase |-> "none", position |-> Vec(0, 0, 0), target |-> Vec(0, 0, 0), zoom |-> 0]

DefaultHalfH == M(60)

TickCallback(handle) == [id |-> handle, kind |-> "tick", ev |-> NoEvent]
HoverCallback(handle, ev) == [id |-> handle, kind |-> "hover", ev |-> ev]

(* the state the mount effect leaves *)
Mounted(aspect) ==
    LET c3 == [position |-> Vec(M(40), M(30), M(40)), aspect |-> aspect, fov |-> Fov,
               isOrthographicCamera |-> FALSE]
        c2 == [position |-> Vec(0, M(200), 0), zoom |-> 100,
               left |-> -((DefaultHalfH * aspect) \div 100),
               right |-> (DefaultHalfH * aspect) \div 100,
               top |-> DefaultHalfH, bottom |-> -DefaultHalfH,
               isOrthographicCamera |-> TRUE]
        t3 == [target |-> Vec(0, 0, 0), enableRotate |-> TRUE]
        t2 == [target |-> Vec(0, 0, 0), enableRotate |-> FALSE]
    IN  [cam3D |-> c3, controls3D |-> t3, cam2D |-> c2, controls2D |-> t2,
         activeCamera |-> "cam3D", activeControls |-> "controls3D",
         camState3D |-> cloneState(c3.position, t3.target, Absent),
         camState2D |-> cloneState(c2.position, t2.target, Num(c2.zoom)),
         orthoHalfH |-> DefaultHalfH,
         drillGroup |-> <<>>, gridGroup |-> <<>>,
         listeners |-> {"resize", "keydown"},
         rafQueue |-> << TickCallback(1) >>, hoverRAFRef |-> 0]

DefaultProps == PropsOf(<<>>, "view3d", NULL, TRUE)

(* the first commit without the view effect: the pair the mount effect    *)
(* made active stays active                                                *)
MountCommitNoViewEffect(aspect, p) ==
    HoverEffect(PointerDownEffect(
        SelectionHighlightEffect(
            AutoFitEffect(RebuildEffect(Mounted(aspect), p), p, aspect), p)))

(* the mount effect and the other effects of the first commit of a        *)
(* component mounted with props p                                          *)
MountCommit(aspect, p) ==
    HoverEffect(PointerDownEffect(ViewEffect(
        SelectionHighlightEffect(
            AutoFitEffect(RebuildEffect(Mounted(aspect), p), p, aspect), p),
        p)))

FirstCommit(aspect) == MountCommit(aspect, DefaultProps)

Init ==
    /\ holes = <<>>
    /\ view = "view3d"
    /\ selection = NULL
    /\ intervalId = NULL
    /\ showGrid = TRUE
    /\ showTerrain = TRUE
    /\ theme = "dark"
    /\ mounted = TRUE
    /\ hostAspect \in Aspects
    /\ \E s \in {FirstCommit(hostAspect)} :
        /\ cam3D = s.cam3D
        /\ controls3D = s.controls3D
        /\ cam2D = s.cam2D
        /\ controls2D = s.controls2D
        /\ activeCamera = s.activeCamera
        /\ activeControls = s.activeControls
        /\ camState3D = s.camState3D
        /\ camState2D = s.camState2D
        /\ orthoHalfH = s.orthoHalfH
        /\ drillGroup = s.drillGroup
        /\ gridGroup = s.gridGroup
        /\ listeners = s.listeners
        /\ rafQueue = s.rafQueue
        /\ hoverRAFRef = s.hoverRAFRef
    /\ rafRef = 1
    /\ hoverId = NULL
    /\ tooltip = [display |-> "none", html |-> <<>>, left |-> 0]
    /\ lastOp = "mount"
    /\ selectCalls = <<>>
    /\ frameLog = ZeroLog
    /\ trip3D = TripNone
    /\ trip2D = TripNone

----------------------------------------------------------------------------
(* Handlers that update the application state *)

(* what a view switch leaves behind: the pose of the camera that became    *)
(* inactive, kept while no signature change and no focus intervenes, and   *)
(* marked "back" by the step that switches back                            *)
TripDirty ==
    \/ projectSig(holes') # projectSig(holes)
    \/ lastOp' = "focusSelected"
    \/ ~mounted'

TripNext(trip, home, pose) ==
    IF TripDirty THEN TripNone
    ELSE IF view = home /\ view' # home THEN [pose EXCEPT !.phase = "away"]
    ELSE IF view # home /\ view' = home /\ trip.phase = "away"
         THEN [trip EXCEPT !.phase = "back"]
    ELSE IF trip.phase = "away" THEN trip
    ELSE TripNone

TripStep ==
    /\ trip3D' = TripNext(trip3D, "view3d",
                          [phase |-> "none", position |-> cam3D.position,
                           target |-> controls3D.target, zoom |-> 0])
    /\ trip2D' = TripNext(trip2D, "plan2d",
                          [phase |-> "none", position |-> cam2D.position,
                           target |-> controls2D.target, zoom |-> cam2D.zoom])

(* what a step leaves for observation: the operation, the onSelect calls  *)
(* it made and the callbacks its frame ran                                 *)
Record(op, calls, log) ==
    /\ lastOp' = op
    /\ selectCalls' = calls
    /\ frameLog' = log
    /\ TripStep

Observe(op) == Record(op, <<>>, ZeroLog)

(* SceneViewport's effect that leaves a selection whose hole is gone as    *)
(* it is                                                                   *)
ClearMissingSelectionNever(hs, sel, iv) == [drillholeId |-> sel, intervalId |-> iv]

(* SceneViewport's own effect drops a selection whose hole is gone *)
ClearMissingSelection(hs, sel, iv) ==
    IF sel # NULL /\ ~SelectedExists(hs, sel)
    THEN [drillholeId |-> NULL, intervalId |-> NULL]
    ELSE [drillholeId |-> sel, intervalId |-> iv]

(* setState with the holes, the view, the selection (drillholeId sel,      *)
(* intervalId iv) and the grid option, the render it causes and the        *)
(* effects of that render                                                  *)
UpdateState(hs, v, sel, iv, grid, newArray) ==
    /\ holes' = hs
    /\ view' = v
    /\ selection' = ClearMissingSelection(hs, sel, iv).drillholeId
    /\ intervalId' = ClearMissingSelection(hs, sel, iv).intervalId
    /\ showGrid' = grid
    /\ IF mounted
       THEN \E s \in {Commit(Canvas, Props, PropsOf(hs, v, sel, grid), newArray,
                              hostAspect)} : SetCanvas(s)
       ELSE UNCHANGED <<camVars, activeVars, sceneVars, listeners, rafQueue, hoverRAFRef>>
    /\ UNCHANGED <<showTerrain, theme, mounted, hostAspect, rafRef, hoverVars>>

Update(op, hs, v, sel, iv, grid, newArray) ==
    /\ mounted
    /\ UpdateState(hs, v, sel, iv, grid, newArray)
    /\ Observe(op)

(* DrillholesWorkspace.onPickHole, LoggingWorkspace.selectHole *)
onPickHole(id) ==
    /\ HasHole(holes, id)
    /\ Update("onPickHole", holes, view, id, NULL, showGrid, FALSE)

(* DrillholesWorkspace.applyCreate *)
applyCreate(i, depth) ==
    /\ Len(holes) < MaxHoles
    /\ ~HasHole(holes, IdOf(i))
    /\ Update("applyCreate", Append(holes, DraftHole(i, depth)), view, IdOf(i), NULL,
              showGrid, TRUE)

(* DrillholesWorkspace.confirmDelete *)
confirmDelete ==
    /\ selection # NULL
    /\ HasHole(holes, selection)
    /\ \E nextHoles \in {FilterOut(holes, selection)} :
          Update("confirmDelete", nextHoles, view,
                 IF Len(nextHoles) > 0 THEN FirstIdAsc(nextHoles) ELSE NULL, NULL,
                 showGrid, TRUE)

(* LoggingWorkspace.updateHoleIntervals: n intervals for the selected hole *)
updateHoleIntervals(n) ==
    /\ selection # NULL
    /\ HasHole(holes, selection)
    /\ Update("updateHoleIntervals",
              [i \in 1..Len(holes) |->
                  IF holes[i].id # selection THEN holes[i]
                  ELSE [holes[i] EXCEPT !.intervals = n]],
              view, selection, intervalId, showGrid, TRUE)

(* DataWorkspace.applyProject, WelcomeModal.applyProject *)
applyProject(project) ==
    Update("applyProject", project, view, NULL, NULL, showGrid, TRUE)

(* LoggingWorkspace.selectInterval: an interval of the selected hole, or   *)
(* none                                                                    *)
IntervalIds == {"INT-1", "INT-2"}

selectInterval(iv) ==
    /\ selection # NULL
    /\ HasHole(holes, selection)
    /\ Update("selectInterval", holes, view, selection, iv, showGrid, FALSE)

(* AppRoot's effect after its first commit: the snapshot found in local    *)
(* storage, with a project and a selection that may name a hole the        *)
(* project does not hold, replaces the state                               *)
restoreState(project, sel, iv) ==
    /\ lastOp = "mount"
    /\ Update("restoreState", project, view, sel, iv, showGrid, TRUE)

(* AppRoot.onKeyDown, key g *)
toggleGrid == Update("toggleGrid", holes, view, selection, intervalId, ~showGrid, FALSE)

(* A toggle of the scene options that SceneViewport passes on: the render  *)
(* has the same project object, so of the effects only those run that      *)
(* depend on the toggled prop, and the pointerdown effect as in every      *)
(* commit.                                                                 *)

(* AppRoot.onKeyDown, key t *)
toggleTerrain ==
    /\ mounted
    /\ showTerrain' = ~showTerrain
    /\ \E s \in {PointerDownEffect(RebuildEffect(Canvas, Props))} : SetCanvas(s)
    /\ UNCHANGED <<holes, view, selection, intervalId, showGrid, theme, mounted,
                   hostAspect, rafRef, hoverVars>>
    /\ Observe("toggleTerrain")

(* the theme button of the top bar: new theme tokens *)
toggleTheme ==
    /\ mounted
    /\ theme' = IF theme = "dark" THEN "light" ELSE "dark"
    /\ \E s \in {PointerDownEffect(
                     SelectionHighlightEffect(RebuildEffect(Canvas, Props), Props))} :
          SetCanvas(s)
    /\ UNCHANGED <<holes, view, selection, intervalId, showGrid, showTerrain, mounted,
                   hostAspect, rafRef, hoverVars>>
    /\ Observe("toggleTheme")

(* the setView prop: keys 1 and 2 of SceneCanvas.onKeyDown (v = the view   *)
(* asked for) and key v of AppRoot.onKeyDown (the other view)              *)
(* setView that hands the viewport a new array of holes as well *)
setViewNewArray(v) ==
    /\ Update("setView", holes, v, selection, intervalId, showGrid, TRUE)

setView(v) ==
    /\ Update("setView", holes, v, selection, intervalId, showGrid, FALSE)

----------------------------------------------------------------------------
(* Handlers of the viewport *)

(* Pointer or wheel input handled by the OrbitControls.  Both controllers  *)
(* listen on renderer.domElement and neither is ever disabled: controls3D  *)
(* orbits, pans or dollies cam3D; controls2D, whose rotation is off, pans  *)
(* or zooms cam2D on the inputs that are a pan or a zoom (withPlan).       *)
ControlsInput(p3, p2, withPlan) ==
    /\ mounted
    /\ cam3D' = [cam3D EXCEPT !.position = p3.position]
    /\ controls3D' = [controls3D EXCEPT !.target = p3.target]
    /\ cam2D' = IF withPlan THEN [cam2D EXCEPT !.position = p2.position, !.zoom = p2.zoom]
                ELSE cam2D
    /\ controls2D' = IF withPlan THEN [controls2D EXCEPT !.target = p2.target]
                     ELSE controls2D
    /\ UNCHANGED <<appVars, mounted, hostAspect, camState3D, camState2D, orthoHalfH,
                   activeVars, sceneVars, listeners, frameVars, hoverVars>>
    /\ Observe("ControlsInput")

focusHole(s, dh, aspect) == FitIfBounds(s, computeDrillholeBounds(<< dh >>), aspect)

(* the F key (outside text fields) and the Focus button *)
focusSelected ==
    /\ mounted
    /\ \E id \in {selectedIdRef} : \E dh \in {HoleById(projectRef, id)} :
           IF id = NULL \/ dh = <<>>
           THEN UNCHANGED <<camVars, activeVars, sceneVars, listeners, rafQueue, hoverRAFRef>>
           ELSE \E s \in {focusHole(Canvas, dh[1], hostAspect)} : SetCanvas(s)
    /\ UNCHANGED <<appVars, mounted, hostAspect, rafRef, hoverVars>>
    /\ Observe("focusSelected")

(* a handler that returns without doing anything *)
Idle(op) ==
    /\ UNCHANGED <<appVars, mounted, hostAspect, camVars, activeVars, sceneVars, listeners,
                   frameVars, hoverVars>>
    /\ Observe(op)

(* Keyboard events: the key (one of the viewport's shortcuts), the element *)
(* the event targets and whether an earlier listener prevented the         *)
(* default.                                                                *)
Keys == {"f", "F", "1", "2"}

KeyTargets ==
    { [tagName |-> "BODY", isContentEditable |-> FALSE],
      [tagName |-> "INPUT", isContentEditable |-> FALSE],
      [tagName |-> "TEXTAREA", isContentEditable |-> FALSE],
      [tagName |-> "DIV", isContentEditable |-> TRUE] }

KeyEvents == [key : Keys, target : KeyTargets, defaultPrevented : BOOLEAN]

inTextField(t) == t.tagName = "INPUT" \/ t.tagName = "TEXTAREA" \/ t.isContentEditable

(* onKeyDown without the test for a text field *)
onKeyDownAnyTarget(ev) ==
    /\ "keydown" \in listeners
    /\ IF ev.defaultPrevented THEN Idle("onKeyDown")
       ELSE IF ev.key \in {"f", "F"} THEN focusSelected
       ELSE IF ev.key = "1" THEN setView("view3d")
       ELSE IF ev.key = "2" THEN setView("plan2d")
       ELSE Idle("onKeyDown")

onKeyDown(ev) ==
    /\ "keydown" \in listeners
    /\ IF ev.defaultPrevented THEN Idle("onKeyDown")
       ELSE IF inTextField(ev.target) THEN Idle("onKeyDown")
       ELSE IF ev.key \in {"f", "F"} THEN focusSelected
       ELSE IF ev.key = "1" THEN setView("view3d")
       ELSE IF ev.key = "2" THEN setView("plan2d")
       ELSE Idle("onKeyDown")

(* AppRoot's own keydown listener on the window: the keys it acts on, and  *)
(* Escape, which closes the active tool and leaves the viewport alone; it  *)
(* reads neither the target of the event nor defaultPrevented              *)
AppKeys == {"g", "G", "t", "T", "v", "V", "Escape"}

AppKeyEvents == [key : AppKeys, target : KeyTargets, defaultPrevented : BOOLEAN]

AppRootOnKeyDown(ev) ==
    IF ev.key = "Escape" THEN mounted /\ Idle("AppRoot.onKeyDown")
    ELSE IF ev.key \in {"g", "G"} THEN toggleGrid
    ELSE IF ev.key \in {"t", "T"} THEN toggleTerrain
    ELSE IF ev.key \in {"v", "V"}
         THEN setView(IF view = "view3d" THEN "plan2d" ELSE "view3d")
    ELSE mounted /\ Idle("AppRoot.onKeyDown")

(* the aspects a resize can bring the host element to, in hundredths *)
ResizeAspects == {150, 200}

(* onResize with the half-height the cameras were constructed with *)
resizeCamerasDefaultHalfH(s, aspect2) ==
    [s EXCEPT
        !.cam3D.aspect = aspect2,
        !.cam2D.left = -((DefaultHalfH * aspect2) \div 100),
        !.cam2D.right = (DefaultHalfH * aspect2) \div 100,
        !.cam2D.top = DefaultHalfH,
        !.cam2D.bottom = -DefaultHalfH]

(* what onResize does to the cameras: the perspective aspect, and the      *)
(* orthographic frustum from the persisted half-height                     *)
resizeCameras(s, aspect2) ==
    [s EXCEPT
        !.cam3D.aspect = aspect2,
        !.cam2D.left = -((s.orthoHalfH * aspect2) \div 100),
        !.cam2D.right = (s.orthoHalfH * aspect2) \div 100,
        !.cam2D.top = s.orthoHalfH,
        !.cam2D.bottom = -s.orthoHalfH]

(* a resize of the window that leaves the host element with aspect2 *)
onResize(aspect2) ==
    /\ "resize" \in listeners
    /\ hostAspect' = aspect2
    /\ IF mounted
       THEN \E s \in {resizeCameras(Canvas, aspect2)} : SetCanvas(s)
       ELSE UNCHANGED <<camVars, activeVars, sceneVars, listeners, rafQueue, hoverRAFRef>>
    /\ UNCHANGED <<appVars, mounted, rafRef, hoverVars>>
    /\ Observe("onResize")

(* onSelect as SceneViewport binds it *)
onSelect(id) ==
    /\ UpdateState(holes, view, id, NULL, showGrid, FALSE)
    /\ Record("onPointerDown", << id >>, ZeroLog)

onPointerDown(ev) ==
    /\ "pointerdown" \in listeners
    /\ \E hits \in {IntersectDrillGroup(drillGroup, ev)} :
       \E id \in {PickId(hits, drillGroup)} :
           IF mounted /\ hits # <<>> /\ Truthy(id)
           THEN onSelect(id)
           ELSE /\ UNCHANGED <<appVars, mounted, hostAspect, camVars, activeVars,
                               sceneVars, listeners, frameVars, hoverVars>>
                /\ Observe("onPointerDown")

(* requestAnimationFrame: a handle no pending callback and no ref holds *)
NewHandle(queue, held) ==
    CHOOSE n \in 1..(Len(queue) + Cardinality(held) + 1) :
        /\ n \notin held
        /\ \A k \in 1..Len(queue) : queue[k].id # n
        /\ \A j \in 1..(n - 1) : j \in held \/ \E k \in 1..Len(queue) : queue[k].id = j

(* onPointerMove without the pending-frame guard *)
onPointerMoveUnguarded(ev) ==
    /\ "pointermove" \in listeners
    /\ Len(rafQueue) <= MaxHoverQueue
    /\ \E handle \in {NewHandle(rafQueue, {rafRef})} :
           /\ hoverRAFRef' = handle
           /\ rafQueue' = Append(rafQueue, HoverCallback(handle, ev))
    /\ UNCHANGED <<appVars, mounted, hostAspect, camVars, activeVars, sceneVars,
                   listeners, rafRef, hoverVars>>
    /\ Record("onPointerMove", <<>>, [ZeroLog EXCEPT !.moveX = << ev.clientX >>])

(* onPointerMove that hands the latest event to the pending callback *)
onPointerMoveLatest(ev) ==
    /\ "pointermove" \in listeners
    /\ Len(rafQueue) <= MaxHoverQueue
    /\ IF hoverRAFRef # 0
       THEN /\ rafQueue' = [k \in 1..Len(rafQueue) |->
                               IF rafQueue[k].id = hoverRAFRef
                               THEN HoverCallback(hoverRAFRef, ev) ELSE rafQueue[k]]
            /\ UNCHANGED hoverRAFRef
       ELSE \E handle \in {NewHandle(rafQueue, {rafRef})} :
                /\ hoverRAFRef' = handle
                /\ rafQueue' = Append(rafQueue, HoverCallback(handle, ev))
    /\ UNCHANGED <<appVars, mounted, hostAspect, camVars, activeVars, sceneVars,
                   listeners, rafRef, hoverVars>>
    /\ Record("onPointerMove", <<>>, [ZeroLog EXCEPT !.moveX = << ev.clientX >>])

onPointerMove(ev) ==
    /\ "pointermove" \in listeners
    /\ Len(rafQueue) <= MaxHoverQueue
    /\ IF hoverRAFRef # 0
       THEN UNCHANGED <<rafQueue, hoverRAFRef>>
       ELSE \E handle \in {NewHandle(rafQueue, {rafRef})} :
                /\ hoverRAFRef' = handle
                /\ rafQueue' = Append(rafQueue, HoverCallback(handle, ev))
    /\ UNCHANGED <<appVars, mounted, hostAspect, camVars, activeVars, sceneVars,
                   listeners, rafRef, hoverVars>>
    /\ Record("onPointerMove", <<>>, [ZeroLog EXCEPT !.moveX = << ev.clientX >>])

hide(f) == [f EXCEPT !.hoverId = NULL, !.tooltip.display = "none"]

onPointerLeave ==
    /\ "pointerleave" \in listeners
    /\ \E f \in {hide([hoverId |-> hoverId, tooltip |-> tooltip])} :
           /\ hoverId' = f.hoverId
           /\ tooltip' = f.tooltip
    /\ UNCHANGED <<appVars, mounted, hostAspect, camVars, activeVars, sceneVars,
                   listeners, frameVars>>
    /\ Observe("onPointerLeave")

buildTooltipHtml(h) ==
    [id |-> h.id, depth |-> h.depth, collar |-> h.collar,
     az |-> IF IsFiniteNumber(h.azimuth) THEN Num(normalizeAzimuthDeg(h.azimuth[1]))
            ELSE Absent,
     inc |-> IF IsFiniteNumber(h.inclination)
             THEN Num(clampInclinationDownDeg(h.inclination[1])) ELSE Absent,
     intervals |-> h.intervals]

(* The frame callbacks work on f: the pending queue, the two handle refs,  *)
(* the hover state and the frame's log.                                    *)

(* what one tick does after it rescheduled itself: advance the active     *)
(* controller, draw the scene with the active camera, turn the axes        *)
(* overlay as the active camera is turned and draw it                      *)
TickSteps(controls, camera) ==
    (IF controls # NULL THEN << << "update", controls >> >> ELSE <<>>)
        \o (IF camera # NULL THEN << << "render", camera >>, << "axes", camera >> >>
            ELSE <<>>)

(* a tick that always works with the perspective camera and its controller *)
tickWithPerspective(f, handle) ==
    [f EXCEPT !.rafRef = handle,
              !.rafQueue = Append(f.rafQueue, TickCallback(handle)),
              !.log.ticks = f.log.ticks + 1,
              !.log.steps = f.log.steps \o TickSteps("controls3D", "cam3D")]

(* a tick that does not request the next frame *)
tickWithNoRequest(f, handle) ==
    [f EXCEPT !.log.ticks = f.log.ticks + 1,
              !.log.steps = f.log.steps \o TickSteps(f.activeControls, f.activeCamera)]

(* tick: reschedule itself, advance the active controller, draw *)
tickWith(f, handle) ==
    [f EXCEPT !.rafRef = handle,
              !.rafQueue = Append(f.rafQueue, TickCallback(handle)),
              !.log.ticks = f.log.ticks + 1,
              !.log.steps = f.log.steps \o TickSteps(f.activeControls, f.activeCamera)]

tick(f) == tickWith(f, NewHandle(f.rafQueue, {f.hoverRAFRef}))

(* the callback onPointerMove scheduled for event ev *)
show(f, ev) == [f EXCEPT !.tooltip.left = ev.clientX, !.tooltip.display = "block"]

(* the callback once the ray is cast: hits, the id found, the hole it names *)
hoverResolve(f, ev, hits, id, hole) ==
    IF hits = <<>> THEN hide(f)
    ELSE IF ~Truthy(id) THEN hide(f)
    ELSE IF f.hoverId # id
         THEN IF hole = <<>> THEN hide([f EXCEPT !.hoverId = id])
              ELSE show([f EXCEPT !.hoverId = id,
                                  !.tooltip.html = << buildTooltipHtml(hole[1]) >>], ev)
    ELSE show(f, ev)

hoverCast(f, ev, hits, dg, hs) ==
    hoverResolve([f EXCEPT !.log.casts = f.log.casts + 1,
                           !.log.castX = Append(f.log.castX, ev.clientX)],
                 ev, hits, PickId(hits, dg),
                 HoleById(hs, PickId(hits, dg)))

hoverFrame(f, ev, refsLive, dg, hs) ==
    IF ~refsLive THEN hide([f EXCEPT !.hoverRAFRef = 0])
    ELSE hoverCast([f EXCEPT !.hoverRAFRef = 0], ev, IntersectDrillGroup(dg, ev), dg, hs)

RECURSIVE RunCallbacks(_, _, _, _, _)
RunCallbacks(cbs, f, refsLive, dg, hs) ==
    IF cbs = <<>> THEN f
    ELSE RunCallbacks(Tail(cbs),
                      IF Head(cbs).kind = "tick" THEN tick(f)
                      ELSE hoverFrame(f, Head(cbs).ev, refsLive, dg, hs),
                      refsLive, dg, hs)

(* One animation frame: the browser runs the callbacks that were pending   *)
(* when the frame began, in the order they were requested.                 *)
Frame ==
    /\ rafQueue # <<>>
    /\ \E f \in {RunCallbacks(rafQueue,
                                [rafQueue |-> <<>>, rafRef |-> rafRef,
                                 hoverRAFRef |-> hoverRAFRef, hoverId |-> hoverId,
                                 tooltip |-> tooltip, log |-> ZeroLog,
                                 activeCamera |-> activeCamera,
                                 activeControls |-> activeControls],
                                mounted, drillGroup, holes)} :
           /\ rafQueue' = f.rafQueue
           /\ rafRef' = f.rafRef
           /\ hoverRAFRef' = f.hoverRAFRef
           /\ hoverId' = f.hoverId
           /\ tooltip' = f.tooltip
           /\ UNCHANGED <<appVars, mounted, hostAspect, camVars, activeVars, sceneVars,
                          listeners>>
           /\ Record("Frame", <<>>, f.log)

(* Unmount: the cleanups of the mount effect, of the pointerdown effect    *)
(* and of the hover effect                                                 *)
(* MountCleanup without cancelAnimationFrame *)
MountCleanupNoCancel(s, handle) ==
    [s EXCEPT
        !.listeners = s.listeners \ {"resize", "keydown"},
        !.activeCamera = NULL,
        !.activeControls = NULL]

MountCleanup(s, handle) ==
    [s EXCEPT
        !.rafQueue = IF handle # 0 THEN CancelFrame(s.rafQueue, handle) ELSE s.rafQueue,
        !.listeners = s.listeners \ {"resize", "keydown"},
        !.activeCamera = NULL,
        !.activeControls = NULL]

PointerDownCleanup(s) == [s EXCEPT !.listeners = s.listeners \ {"pointerdown"}]

Teardown ==
    /\ mounted
    /\ mounted' = FALSE
    /\ \E s \in {HoverCleanup(PointerDownCleanup(MountCleanup(Canvas, rafRef)))} :
          SetCanvas(s)
    /\ UNCHANGED <<appVars, hostAspect, rafRef, hoverVars>>
    /\ Observe("Teardown")

(* The component is mounted again, with the props the application state   *)
(* gives it now: new cameras, controllers and refs, and a new render loop  *)
Mount(aspect) ==
    /\ ~mounted
    /\ mounted' = TRUE
    /\ hostAspect' = aspect
    /\ \E s \in {MountCommit(aspect, Props)} : SetCanvas(s)
    /\ rafRef' = 1
    /\ hoverId' = NULL
    /\ tooltip' = [display |-> "none", html |-> <<>>, left |-> 0]
    /\ UNCHANGED appVars
    /\ Observe("Mount")

----------------------------------------------------------------------------
(* Specifications *)

(* the camera manager under data edits (holes created and deleted,        *)
(* intervals edited, a blank project opened), view switches, camera input  *)
(* and focus                                                               *)
NextCam ==
    \/ \E id \in HoleIds : onPickHole(id)
    \/ \E i \in HoleIndex, depth \in Depths : applyCreate(i, depth)
    \/ confirmDelete
    \/ \E n \in 0..MaxIntervals : updateHoleIntervals(n)
    \/ applyProject(BlankProject)
    \/ \E v \in {"view3d", "plan2d"} : setView(v)
    \/ \E p3 \in Orbit3DPoses, p2 \in Plan2DPoses, withPlan \in BOOLEAN :
          ControlsInput(p3, p2, withPlan)
    \/ focusSelected

SpecCam == Init /\ [][NextCam]_vars

(* picking under data edits, view switches and the grid toggle *)
NextPick ==
    \/ \E id \in HoleIds : onPickHole(id)
    \/ \E i \in HoleIndex, depth \in Depths : applyCreate(i, depth)
    \/ confirmDelete
    \/ \E project \in ProjectFiles : applyProject(project)
    \/ \E v \in {"view3d", "plan2d"} : setView(v)
    \/ toggleGrid
    \/ \E ev \in PointerEvents : onPointerDown(ev)

SpecPick == Init /\ [][NextPick]_vars

(* hover, the frame callbacks and teardown under data edits *)
NextHover ==
    \/ \E id \in HoleIds : onPickHole(id)
    \/ \E i \in HoleIndex, depth \in Depths : applyCreate(i, depth)
    \/ confirmDelete
    \/ \E n \in 0..MaxIntervals : updateHoleIntervals(n)
    \/ \E project \in ProjectFiles : applyProject(project)
    \/ \E ev \in MoveEvents : onPointerMove(ev)
    \/ onPointerLeave
    \/ Frame
    \/ Teardown

SpecHover == Init /\ [][NextHover]_vars

(* the keyboard shortcuts of the viewport and window resizes, with holes   *)
(* created and picked and the cameras moved by the user                    *)
NextKeys ==
    \/ \E id \in HoleIds : onPickHole(id)
    \/ \E i \in HoleIndex, depth \in Depths : applyCreate(i, depth)
    \/ \E ev \in KeyEvents : onKeyDown(ev)
    \/ \E aspect2 \in ResizeAspects : onResize(aspect2)
    \/ \E p3 \in Orbit3DPoses, p2 \in Plan2DPoses : ControlsInput(p3, p2, TRUE)

SpecKeys == Init /\ [][NextKeys]_vars

(* the scene builder: holes created and picked, the scene options         *)
(* toggled, the view switched and the cameras moved by the user            *)
NextScene ==
    \/ \E id \in HoleIds : onPickHole(id)
    \/ \E i \in HoleIndex, depth \in Depths : applyCreate(i, depth)
    \/ toggleGrid
    \/ toggleTerrain
    \/ toggleTheme
    \/ \E v \in {"view3d", "plan2d"} : setView(v)
    \/ \E p3 \in Orbit3DPoses, p2 \in Plan2DPoses : ControlsInput(p3, p2, TRUE)

SpecScene == Init /\ [][NextScene]_vars

(* the view switch: holes created, the view switched, the cameras moved by *)
(* the user and the pointer hovering                                       *)
NextSwitch ==
    \/ \E i \in HoleIndex, depth \in Depths : applyCreate(i, depth)
    \/ \E v \in {"view3d", "plan2d"} : setView(v)
    \/ \E p3 \in Orbit3DPoses, p2 \in Plan2DPoses : ControlsInput(p3, p2, TRUE)
    \/ \E ev \in MoveEvents : onPointerMove(ev)
    \/ Frame

SpecSwitch == Init /\ [][NextSwitch]_vars

(* the direction of a hole: projects of one hole, of every orientation of  *)
(* KernelProjects, are opened and the hole is picked, which builds its     *)
(* meshes along its direction                                              *)
NextKernel ==
    \/ \E project \in KernelProjects : applyProject(project)
    \/ \E id \in HoleIds : onPickHole(id)

SpecKernel == Init /\ [][NextKernel]_vars

(* the angles of a hole: projects of one hole that carries an azimuth or   *)
(* an inclination are opened and the pointer hovers, which shows the       *)
(* normalized azimuth and the clamped inclination in the tooltip           *)
NextAngles ==
    \/ \E project \in AngleProjects : applyProject(project)
    \/ \E ev \in MoveEvents : onPointerMove(ev)
    \/ Frame

SpecAngles == Init /\ [][NextAngles]_vars

(* the bounds of the holes: projects of BoundsProjects are opened, which   *)
(* fits both cameras to the bounds of their holes, a hole is picked and    *)
(* the cameras are focused on it, which fits them to its bounds alone      *)
NextBounds ==
    \/ \E project \in BoundsProjects : applyProject(project)
    \/ \E id \in HoleIds : onPickHole(id)
    \/ focusSelected

SpecBounds == Init /\ [][NextBounds]_vars

(* the render loop over the life of the component: holes created, the     *)
(* view switched, the window resized, the pointer moving over the surface  *)
(* and leaving it, animation frames, and the component unmounted and       *)
(* mounted again                                                           *)
NextLoop ==
    \/ \E i \in HoleIndex, depth \in Depths : applyCreate(i, depth)
    \/ \E v \in {"view3d", "plan2d"} : setView(v)
    \/ \E aspect2 \in ResizeAspects : onResize(aspect2)
    \/ \E ev \in MoveEvents : onPointerMove(ev)
    \/ onPointerLeave
    \/ Frame
    \/ Teardown
    \/ \E aspect \in Aspects : Mount(aspect)

SpecLoop == Init /\ [][NextLoop]_vars

(* the keys of the application and of the viewport, pressed with the      *)
(* focus anywhere, with holes created and picked                           *)
NextAppKeys ==
    \/ \E id \in HoleIds : onPickHole(id)
    \/ \E i \in HoleIndex, depth \in Depths : applyCreate(i, depth)
    \/ \E ev \in AppKeyEvents : AppRootOnKeyDown(ev)
    \/ \E ev \in KeyEvents : onKeyDown(ev)

SpecAppKeys == Init /\ [][NextAppKeys]_vars

(* the selection under data changes: a snapshot restored, holes created,   *)
(* picked and deleted, intervals selected and edited and projects opened   *)
NextSelection ==
    \/ \E project \in ProjectFiles, sel \in HoleIds \cup {NULL},
          iv \in IntervalIds \cup {NULL} : restoreState(project, sel, iv)
    \/ \E id \in HoleIds : onPickHole(id)
    \/ \E i \in HoleIndex, depth \in Depths : applyCreate(i, depth)
    \/ \E iv \in IntervalIds \cup {NULL} : selectInterval(iv)
    \/ \E n \in 0..MaxIntervals : updateHoleIntervals(n)
    \/ confirmDelete
    \/ \E project \in ProjectFiles : applyProject(project)

SpecSelection == Init /\ [][NextSelection]_vars

----------------------------------------------------------------------------
(* Properties of the camera manager, under SpecCam *)

(* C1: a round trip view3d -> plan2d -> view3d with no signature change    *)
(* and no focus in between leaves the perspective camera's position and    *)
(* orbit target exactly as they were before the first switch.              *)
C1_RoundTripPerspective ==
    trip3D.phase = "back" =>
        /\ cam3D.position = trip3D.position
        /\ controls3D.target = trip3D.target

(* C2: a round trip plan2d -> view3d -> plan2d with no signature change    *)
(* and no focus in between leaves the orthographic camera's position,      *)
(* target and zoom exactly as they were before the first switch.           *)
C2_RoundTripPlan ==
    trip2D.phase = "back" =>
        /\ cam2D.position = trip2D.position
        /\ controls2D.target = trip2D.target
        /\ cam2D.zoom = trip2D.zoom

(* C3: a project update that leaves the signature of the drillhole list    *)
(* unchanged modifies neither camera's position, target or zoom nor either *)
(* saved CameraState.                                                      *)
C3_SameSignatureKeepsFraming ==
    [][(/\ lastOp' \in {"applyCreate", "confirmDelete", "updateHoleIntervals",
                        "applyProject"}
        /\ projectSig(holes') = projectSig(holes))
       => (/\ cam3D'.position = cam3D.position
           /\ controls3D'.target = controls3D.target
           /\ cam2D'.position = cam2D.position
           /\ controls2D'.target = controls2D.target
           /\ cam2D'.zoom = cam2D.zoom
           /\ camState3D' = camState3D
           /\ camState2D' = camState2D)]_vars

(* C9: a data update that leaves the drillhole list empty finds no bounds  *)
(* and skips the fit: both cameras, their targets, the orthographic        *)
(* half-height and both saved CameraStates stay as they were; on the first *)
(* render of an empty project they stay as constructed.                    *)
C9_EmptyDataKeepsFraming ==
    /\ (holes = <<>> =>
            /\ cam3D.position = Vec(M(40), M(30), M(40))
            /\ cam2D.position = Vec(0, M(200), 0)
            /\ cam2D.zoom = 100
            /\ orthoHalfH = DefaultHalfH
            /\ camState3D = cloneState(cam3D.position, controls3D.target, Absent)
            /\ camState2D = cloneState(cam2D.position, controls2D.target, Num(cam2D.zoom)))
    /\ [][(/\ lastOp' \in {"applyCreate", "confirmDelete", "updateHoleIntervals",
                            "applyProject"}
            /\ holes' = <<>>)
           => (/\ computeDrillholeBounds(holes') = <<>>
               /\ cam3D' = cam3D
               /\ controls3D' = controls3D
               /\ cam2D' = cam2D
               /\ controls2D' = controls2D
               /\ orthoHalfH' = orthoHalfH
               /\ camState3D' = camState3D
               /\ camState2D' = camState2D)]_vars

(* the last hole was deleted after the user had orbited: the list is empty *)
(* and the perspective camera is where the user left it                    *)
C9_Witness ==
    /\ lastOp = "confirmDelete"
    /\ holes = <<>>
    /\ \E p \in Orbit3DPoses : cam3D.position = p.position /\ controls3D.target = p.target

(* C10: with a selected id that names a hole of the project, focus fits    *)
(* both cameras to the bounds of that hole alone and overwrites both saved *)
(* CameraStates with the fitted values, in either view, leaving the view   *)
(* and the selection alone; a switch to the other view right after it      *)
(* shows the fitted framing.                                               *)
C10_FocusFitsBothCameras ==
    [][/\ (lastOp' = "focusSelected" /\ selection # NULL /\ HasHole(holes, selection))
          => (/\ cam3D' = fitPerspectiveToBounds(cam3D, controls3D,
                              computeDrillholeBounds(HoleById(holes, selection))[1],
                              hostAspect).cam
              /\ controls3D'.target =
                    BoxCenter(computeDrillholeBounds(HoleById(holes, selection))[1])
              /\ cam2D' = fitOrthoToBounds(cam2D, controls2D,
                              computeDrillholeBounds(HoleById(holes, selection))[1],
                              hostAspect).cam
              /\ controls2D'.target =
                    BoxCenter(computeDrillholeBounds(HoleById(holes, selection))[1])
              /\ camState3D' = cloneState(cam3D'.position, controls3D'.target, Absent)
              /\ camState2D' = cloneState(cam2D'.position, controls2D'.target,
                                          Num(cam2D'.zoom))
              /\ view' = view
              /\ activeCamera' = activeCamera
              /\ selection' = selection)
       /\ (/\ lastOp = "focusSelected" /\ selection # NULL /\ HasHole(holes, selection)
           /\ lastOp' = "setView" /\ view' # view)
          => IF view' = "plan2d"
             THEN /\ cam2D'.position = cam2D.position
                  /\ controls2D'.target = controls2D.target
                  /\ cam2D'.zoom = cam2D.zoom
             ELSE /\ cam3D'.position = cam3D.position
                  /\ controls3D'.target = controls3D.target]_vars

(* focus has acted in the plan view on one hole of two: the orbit target   *)
(* is the centre of that hole's bounds, not of the project's               *)
C10_Witness ==
    /\ lastOp = "focusSelected"
    /\ view = "plan2d"
    /\ Len(holes) = 2
    /\ selection # NULL
    /\ HasHole(holes, selection)
    /\ controls3D.target = BoxCenter(computeDrillholeBounds(HoleById(holes, selection))[1])
    /\ controls3D.target # BoxCenter(computeDrillholeBounds(holes)[1])

----------------------------------------------------------------------------
(* Properties of picking, under SpecPick *)

(* C4: a click whose ray meets no mesh of a hole of the scene calls        *)
(* onSelect not at all and leaves the selection and the project as they    *)
(* were; no click calls onSelect with null; the grid is not tested, so a   *)
(* click that meets the grid in front of a hole's mesh still picks the     *)
(* hole and a click that meets only the grid picks nothing.                *)
C4_EmptyClickIsNoOp ==
    [][\A ev \in PointerEvents : (lastOp' = "onPointerDown" /\ onPointerDown(ev)) =>
          /\ (\A k \in 1..Len(ev.ray) :
                  ~(ev.ray[k].kind = "mesh" /\ HasHole(holes, ev.ray[k].id)))
                => (selectCalls' = <<>> /\ selection' = selection /\ holes' = holes)
          /\ \A k \in 1..Len(selectCalls') : selectCalls'[k] \notin {NULL, NoValue, ""}
          /\ (/\ Len(ev.ray) = 2
              /\ ev.ray[1].kind = "grid"
              /\ ev.ray[2].kind = "mesh"
              /\ HasHole(holes, ev.ray[2].id))
                => (selectCalls' = << ev.ray[2].id >> /\ selection' = ev.ray[2].id)]_vars

(* a click made no call while a hole was selected and the grid was shown:  *)
(* the selection is still there                                            *)
C4_Witness ==
    /\ lastOp = "onPointerDown"
    /\ selectCalls = <<>>
    /\ showGrid
    /\ selection # NULL
    /\ HasHole(holes, selection)

(* C5: for every hole of the scene and each of its three meshes, the walk  *)
(* from the mesh to its ancestors finds the hole's id, and a click whose   *)
(* nearest hit is that mesh calls onSelect exactly once, with that id.     *)
C5_PickResolvesHole ==
    [][/\ Len(drillGroup) = Len(holes)
       /\ \A g \in 1..Len(holes), m \in 1..3 :
              /\ Len(drillGroup[g].children) = 3
              /\ pickIdFromObject(MeshNode(g, m), drillGroup) = holes[g].id
       /\ \A ev \in PointerEvents :
              (/\ lastOp' = "onPointerDown"
               /\ ev.ray # <<>>
               /\ ev.ray[1].kind = "mesh"
               /\ HasHole(holes, ev.ray[1].id)
               /\ onPointerDown(ev))
              => (selectCalls' = << ev.ray[1].id >> /\ selection' = ev.ray[1].id)]_vars

(* with two holes in the scene, a click has picked the second while the    *)
(* first was not selected by it                                            *)
C5_Witness ==
    /\ lastOp = "onPointerDown"
    /\ Len(holes) = 2
    /\ selectCalls = << holes[2].id >>
    /\ selection = holes[2].id

(* C14: while mounted, the drillhole group holds exactly one group per     *)
(* hole of the project's list, in list order, each tagged with its hole's  *)
(* id; creating a hole adds exactly one group, tagged with the new id,     *)
(* behind the groups that were there, and deleting a hole removes exactly  *)
(* the group tagged with its id.                                           *)
C14_OneGroupPerHole ==
    /\ [](mounted =>
            /\ Len(drillGroup) = Len(holes)
            /\ \A i \in 1..Len(holes) : drillGroup[i].userData.id = holes[i].id)
    /\ [][/\ lastOp' = "applyCreate" =>
                /\ Len(drillGroup') = Len(drillGroup) + 1
                /\ \A i \in 1..Len(drillGroup) :
                       drillGroup'[i].userData.id = drillGroup[i].userData.id
                /\ \A i \in 1..Len(drillGroup) :
                       drillGroup[i].userData.id # drillGroup'[Len(drillGroup')].userData.id
                /\ drillGroup'[Len(drillGroup')].userData.id = holes'[Len(holes')].id
          /\ lastOp' = "confirmDelete" =>
                /\ Len(drillGroup') = Len(drillGroup) - 1
                /\ [i \in 1..Len(drillGroup') |-> drillGroup'[i].userData.id]
                     = SelectSeq([i \in 1..Len(drillGroup) |-> drillGroup[i].userData.id],
                                 LAMBDA id : id # selection)]_vars

(* the first of two holes was deleted: the one group left is the second    *)
(* hole's                                                                  *)
C14_Witness ==
    /\ lastOp = "confirmDelete"
    /\ Len(holes) = 1
    /\ Len(drillGroup) = 1
    /\ drillGroup[1].userData.id = IdOf(2)

----------------------------------------------------------------------------
(* Properties of hover, the frame callbacks and teardown, under SpecHover *)

(* C6: after every step at most one hover callback is pending, the guard   *)
(* hoverRAFRef is set exactly while one is pending and holds its handle,   *)
(* and the frame that just ran cast at most one hover ray; a pointer-move  *)
(* that finds the guard set leaves the pending callbacks as they are, and  *)
(* one that finds it clear schedules a callback.                           *)
C6_HoverThrottled ==
    [][/\ Cardinality({k \in 1..Len(rafQueue') : rafQueue'[k].kind = "hover"}) <= 1
       /\ (hoverRAFRef' # 0) <=> (\E k \in 1..Len(rafQueue') : rafQueue'[k].kind = "hover")
       /\ \A k \in 1..Len(rafQueue') :
              rafQueue'[k].kind = "hover" => rafQueue'[k].id = hoverRAFRef'
       /\ frameLog'.casts <= 1
       /\ (lastOp' = "onPointerMove" /\ hoverRAFRef # 0) => rafQueue' = rafQueue
       /\ (lastOp' = "onPointerMove" /\ hoverRAFRef = 0) => hoverRAFRef' # 0]_vars

(* a frame has run the one pending hover callback beside the render tick:  *)
(* one ray was cast, the tooltip is shown and the guard is clear again     *)
C6_Witness ==
    /\ lastOp = "Frame"
    /\ frameLog.casts = 1
    /\ frameLog.ticks = 1
    /\ hoverRAFRef = 0
    /\ tooltip.display = "block"

(* C7: once the pointer has left the surface the tooltip stays hidden      *)
(* until a pointer-move: the step after a pointerleave, unless it is a     *)
(* pointer-move, leaves the tooltip not displayed.                         *)
C7_HiddenAfterLeave ==
    [][(lastOp = "onPointerLeave" /\ lastOp' # "onPointerMove")
       => tooltip'.display = "none"]_vars

(* C8: once teardown has run no frame callback is pending, the guard and   *)
(* the listeners are gone, and nothing has run since: no render tick, no   *)
(* hover callback and no handler.                                          *)
C8_TeardownCancelsLoop ==
    ~mounted =>
        /\ rafQueue = <<>>
        /\ hoverRAFRef = 0
        /\ listeners = {}
        /\ lastOp = "Teardown"
        /\ frameLog = ZeroLog

(* teardown has run on a scene with holes whose tooltip was being shown *)
C8_Witness ==
    /\ ~mounted
    /\ lastOp = "Teardown"
    /\ holes # <<>>
    /\ tooltip.display = "block"

----------------------------------------------------------------------------
(* Properties of the keyboard shortcuts and of resize, under SpecKeys *)

(* C11: a keydown of F, 1 or 2 whose target is an INPUT, a TEXTAREA or a   *)
(* content-editable element, or whose default was already prevented, runs  *)
(* no focus operation and makes no setView call: the view, both cameras,   *)
(* their targets, the saved CameraStates, the half-height and the active   *)
(* camera and controller are as before.                                    *)
C11_KeysIgnoredInTextFields ==
    [][(\E ev \in KeyEvents :
           /\ \/ ev.defaultPrevented
              \/ ev.target.tagName \in {"INPUT", "TEXTAREA"}
              \/ ev.target.isContentEditable
           /\ onKeyDown(ev))
          => (/\ lastOp' \notin {"focusSelected", "setView"}
              /\ view' = view
              /\ cam3D' = cam3D
              /\ controls3D' = controls3D
              /\ cam2D' = cam2D
              /\ controls2D' = controls2D
              /\ camState3D' = camState3D
              /\ camState2D' = camState2D
              /\ orthoHalfH' = orthoHalfH
              /\ activeCamera' = activeCamera
              /\ activeControls' = activeControls)]_vars

(* a shortcut key was ignored in the plan view while a hole was selected   *)
(* and the user had moved the perspective camera off its fitted pose: F    *)
(* would have refitted it and 1 would have switched the view               *)
C11_Witness ==
    /\ lastOp = "onKeyDown"
    /\ view = "plan2d"
    /\ selection # NULL
    /\ HasHole(holes, selection)
    /\ \E p \in Orbit3DPoses : cam3D.position = p.position /\ controls3D.target = p.target

(* C12: while the component is mounted, the controller that is active in   *)
(* the plan view is the orthographic camera's and has rotation disabled,   *)
(* and the controller that is active in the 3D view is the perspective     *)
(* camera's and has rotation enabled, whatever view switches, auto-fits,   *)
(* focus operations and resizes came before.                               *)
C12_RotationOnlyIn3D ==
    mounted =>
        /\ view = "plan2d" => (activeControls = "controls2D" /\ ~controls2D.enableRotate)
        /\ view = "view3d" => (activeControls = "controls3D" /\ controls3D.enableRotate)

(* in the plan view, resized after a fit: the fit has disabled rotation on *)
(* the plan controller, which is the active one, and the perspective       *)
(* controller still permits it                                             *)
C12_Witness ==
    /\ view = "plan2d"
    /\ lastOp = "onResize"
    /\ orthoHalfH # DefaultHalfH
    /\ activeControls = "controls2D"
    /\ ~controls2D.enableRotate
    /\ controls3D.enableRotate

(* C16: the half-height is 60 until a fit persists another and only a fit  *)
(* changes it; a resize sets the perspective aspect to the new aspect and  *)
(* the orthographic frustum to top/bottom = +-H and left/right = +-H times  *)
(* the new aspect, H being the persisted half-height, and leaves the       *)
(* orthographic zoom, both cameras' positions and targets and both saved   *)
(* CameraStates as they were.                                              *)
C16_ResizePreservesFraming ==
    /\ [](holes = <<>> => orthoHalfH = DefaultHalfH)
    /\ [][/\ lastOp' \notin {"applyCreate", "focusSelected"} => orthoHalfH' = orthoHalfH
          /\ lastOp' = "onResize" =>
                /\ cam3D'.aspect = hostAspect'
                /\ cam2D'.top = orthoHalfH
                /\ cam2D'.bottom = -orthoHalfH
                /\ cam2D'.right = (orthoHalfH * hostAspect') \div 100
                /\ cam2D'.left = -((orthoHalfH * hostAspect') \div 100)
                /\ cam2D'.zoom = cam2D.zoom
                /\ cam2D'.position = cam2D.position
                /\ cam3D'.position = cam3D.position
                /\ controls3D' = controls3D
                /\ controls2D' = controls2D
                /\ camState3D' = camState3D
                /\ camState2D' = camState2D]_vars

(* a resize to the wider aspect after a fit had persisted a half-height    *)
(* other than 60 and the user had zoomed the plan camera                   *)
C16_Witness ==
    /\ lastOp = "onResize"
    /\ hostAspect = 200
    /\ orthoHalfH # DefaultHalfH
    /\ cam2D.zoom # 100
    /\ cam2D.top = orthoHalfH
    /\ cam2D.right = 2 * orthoHalfH
    /\ cam3D.aspect = 200

----------------------------------------------------------------------------
(* Properties of the view switch, under SpecSwitch *)

(* C13: a step that switches the view leaves the project, the selection,   *)
(* the hovered id and the tooltip, the pending frame callbacks, the        *)
(* objects of the drillhole and grid groups, the persisted half-height,    *)
(* the outgoing camera and the saved CameraState of the incoming camera as *)
(* they were; it saves the outgoing camera's pose, makes the incoming      *)
(* camera and its controller the active ones and restores the incoming     *)
(* camera from its saved state.  (The terrain group never holds an         *)
(* object.)                                                                *)
C13_SwitchOnlySnapshotsAndRestores ==
    [][(lastOp' = "setView" /\ view' # view) =>
          /\ holes' = holes
          /\ selection' = selection
          /\ hoverId' = hoverId
          /\ tooltip' = tooltip
          /\ rafQueue' = rafQueue
          /\ hoverRAFRef' = hoverRAFRef
          /\ drillGroup' = drillGroup
          /\ gridGroup' = gridGroup
          /\ orthoHalfH' = orthoHalfH
          /\ IF view' = "plan2d"
             THEN /\ camState2D' = camState2D
                  /\ camState3D' = cloneState(cam3D.position, controls3D.target, Absent)
                  /\ cam3D' = cam3D
                  /\ controls3D' = controls3D
                  /\ activeCamera' = "cam2D"
                  /\ activeControls' = "controls2D"
                  /\ cam2D' = [cam2D EXCEPT !.position = camState2D.position,
                                            !.zoom = camState2D.zoom[1]]
                  /\ controls2D' = [controls2D EXCEPT !.target = camState2D.target,
                                                      !.enableRotate = FALSE]
             ELSE /\ camState3D' = camState3D
                  /\ camState2D' = cloneState(cam2D.position, controls2D.target,
                                              Num(cam2D.zoom))
                  /\ cam2D' = cam2D
                  /\ controls2D' = controls2D
                  /\ activeCamera' = "cam3D"
                  /\ activeControls' = "controls3D"
                  /\ cam3D' = [cam3D EXCEPT !.position = camState3D.position]
                  /\ controls3D' = [controls3D EXCEPT !.target = camState3D.target,
                                                      !.enableRotate = TRUE]]_vars

(* a switch to the plan view while a hole was selected and the tooltip of  *)
(* a hovered hole was shown; the user had moved both cameras in the 3D     *)
(* view, so the perspective pose saved is the user's and the plan camera   *)
(* is back at its saved, fitted pose                                       *)
C13_Witness ==
    /\ lastOp = "setView"
    /\ view = "plan2d"
    /\ selection # NULL
    /\ hoverId # NULL
    /\ tooltip.display = "block"
    /\ \E p \in Orbit3DPoses : camState3D.position = p.position
    /\ \A p \in Plan2DPoses : cam2D.position # p.position

----------------------------------------------------------------------------
(* Properties of the scene builder, under SpecScene *)

(* C15: a change of the selected id, of the theme tokens, of the show-grid *)
(* toggle or of the show-terrain toggle, the data signature being the      *)
(* same, leaves the drillhole and grid groups as a rebuild from the new    *)
(* props makes them and leaves both cameras' position, target and zoom     *)
(* and both saved CameraStates as they were.                               *)
C15_RebuildKeepsCameras ==
    [][(/\ lastOp' \in {"onPickHole", "toggleGrid", "toggleTerrain", "toggleTheme"}
        /\ projectSig(holes') = projectSig(holes))
       => (/\ drillGroup' = [i \in 1..Len(holes') |->
                                makeDrillholeMesh(holes'[i], holes'[i].id = selection')]
           /\ gridGroup' = IF showGrid' THEN << "GridHelper" >> ELSE <<>>
           /\ cam3D' = cam3D
           /\ controls3D' = controls3D
           /\ cam2D' = cam2D
           /\ controls2D' = controls2D
           /\ orthoHalfH' = orthoHalfH
           /\ camState3D' = camState3D
           /\ camState2D' = camState2D)]_vars

(* another hole was picked in a scene of two after the user had moved the  *)
(* cameras off their fitted poses, with the grid and the terrain switched  *)
(* off and the light theme chosen                                          *)
C15_Witness ==
    /\ lastOp = "onPickHole"
    /\ Len(holes) = 2
    /\ selection = holes[1].id
    /\ drillGroup[1].selected
    /\ ~showGrid
    /\ ~showTerrain
    /\ theme = "light"
    /\ \E p \in Orbit3DPoses : cam3D.position = p.position /\ controls3D.target = p.target
    /\ camState3D.position # cam3D.position

----------------------------------------------------------------------------
(* Properties of the geometry kernel, under SpecKernel *)

(* C17: for every azimuth and inclination a hole can carry, in range or    *)
(* not, or none, the direction its cylinder is built along is the one      *)
(* drillDirFromAzInc returns, has length 1 (to within two thousandths, the *)
(* precision of the fixed point) and has y <= 0.                           *)
C17_DirectionIsUnitAndDown ==
    \A g \in 1..Len(drillGroup) :
        /\ g <= Len(holes)
        /\ drillGroup[g].children[1].dir = drillDirFromAzInc(holes[g])
        /\ drillGroup[g].children[1].dir.y <= 0
        /\ VecLength(drillGroup[g].children[1].dir) \in 998..1002

(* a hole with an azimuth below 0 and an inclination above 0 was opened:   *)
(* its direction is horizontal, west of north                              *)
C17_Witness ==
    /\ lastOp = "applyProject"
    /\ Len(holes) = 1
    /\ holes[1].azimuth = Num(-10)
    /\ holes[1].inclination = Num(10)
    /\ drillGroup[1].children[1].dir.y = 0
    /\ drillGroup[1].children[1].dir.x < 0
    /\ drillGroup[1].children[1].dir.z > 0

(* C18: the cylinder of a hole with azimuth 0 and inclination 0 is built   *)
(* along (0, 0, 1), north; with azimuth 90 and inclination 0 along         *)
(* (1, 0, 0), east; with inclination -90, or below, along (0, -1, 0),      *)
(* down, whatever the azimuth; and in general along the normalized         *)
(* (h sin az, -sin(-inc), h cos az) with h = cos(-inc), az the normalized  *)
(* azimuth and inc the clamped inclination.                                *)
C18_AxisConvention ==
    \A g \in 1..Len(drillGroup) :
        /\ g <= Len(holes)
        /\ (holes[g].azimuth = Num(0) /\ holes[g].inclination = Num(0))
              => drillGroup[g].children[1].dir = Vec(0, 0, 1000)
        /\ (holes[g].azimuth = Num(90) /\ holes[g].inclination = Num(0))
              => drillGroup[g].children[1].dir = Vec(1000, 0, 0)
        /\ (holes[g].inclination # Absent /\ holes[g].inclination[1] <= -90)
              => drillGroup[g].children[1].dir = Vec(0, -1000, 0)
        /\ (holes[g].azimuth # Absent /\ holes[g].inclination # Absent)
              => \E az \in 0..359, inc \in -90..0 :
                    /\ (az - holes[g].azimuth[1]) % 360 = 0
                    /\ inc = Max2(-90, Min2(0, holes[g].inclination[1]))
                    /\ \E v \in {Vec((CosE3(-inc) * SinE3(az)) \div 1000, -SinE3(-inc),
                                       (CosE3(-inc) * CosE3(az)) \div 1000)} :
                           drillGroup[g].children[1].dir = UnitOrDown(v, VecLength(v))

(* a hole with azimuth 90 and inclination 0 was opened: its cylinder       *)
(* points east                                                             *)
C18_Witness ==
    /\ lastOp = "applyProject"
    /\ Len(holes) = 1
    /\ holes[1].azimuth = Num(90)
    /\ holes[1].inclination = Num(0)
    /\ drillGroup[1].children[1].dir = Vec(1000, 0, 0)

----------------------------------------------------------------------------
(* Properties of the angles, under SpecAngles *)

(* C19: the normalization of an azimuth a that a hole carries is the one   *)
(* value r of [0, 360) with r = a modulo 360, and normalizing r again      *)
(* gives r; -10 and 350 both give 350 and 360 gives 0; the tooltip built   *)
(* for a hole newly hovered shows that value.                              *)
C19_AzimuthNormalized ==
    /\ [](\A i \in 1..Len(holes) : holes[i].azimuth # Absent =>
            /\ normalizeAzimuthDeg(holes[i].azimuth[1]) \in 0..359
            /\ \A r \in 0..359 :
                   ((r - holes[i].azimuth[1] + 3600) % 360 = 0)
                       <=> (r = normalizeAzimuthDeg(holes[i].azimuth[1]))
            /\ normalizeAzimuthDeg(normalizeAzimuthDeg(holes[i].azimuth[1]))
                   = normalizeAzimuthDeg(holes[i].azimuth[1])
            /\ holes[i].azimuth[1] \in {-10, 350}
                   => normalizeAzimuthDeg(holes[i].azimuth[1]) = 350
            /\ holes[i].azimuth[1] = 360 => normalizeAzimuthDeg(holes[i].azimuth[1]) = 0)
    /\ [][(/\ lastOp' = "Frame"
            /\ hoverId' # NULL
            /\ hoverId' # hoverId
            /\ tooltip'.display = "block")
           => \E h \in {HoleById(holes, hoverId')} :
                 /\ h # <<>>
                 /\ h[1].azimuth # Absent =>
                       /\ tooltip'.html[1].az # Absent
                       /\ tooltip'.html[1].az[1] \in 0..359
                       /\ (tooltip'.html[1].az[1] - h[1].azimuth[1] + 3600) % 360 = 0]_vars

(* the hole with azimuth -10 is newly hovered: its tooltip shows 350 *)
C19_Witness ==
    /\ lastOp = "Frame"
    /\ hoverId = IdOf(1)
    /\ tooltip.display = "block"
    /\ Len(holes) = 1
    /\ holes[1].azimuth = Num(-10)
    /\ tooltip.html = << buildTooltipHtml(holes[1]) >>
    /\ tooltip.html[1].az = Num(350)

(* C20: the clamp of an inclination i that a hole carries lies in          *)
(* [-90, 0]: it is 0 for i above 0 (10 gives 0), -90 for i below -90       *)
(* (-200 gives -90) and i itself for i in [-90, 0]; the tooltip built for  *)
(* a hole newly hovered shows that value.                                  *)
C20_InclinationClamped ==
    /\ [](\A i \in 1..Len(holes) : holes[i].inclination # Absent =>
            /\ clampInclinationDownDeg(holes[i].inclination[1]) \in -90..0
            /\ holes[i].inclination[1] > 0
                   => clampInclinationDownDeg(holes[i].inclination[1]) = 0
            /\ holes[i].inclination[1] < -90
                   => clampInclinationDownDeg(holes[i].inclination[1]) = -90
            /\ holes[i].inclination[1] \in -90..0
                   => clampInclinationDownDeg(holes[i].inclination[1])
                          = holes[i].inclination[1])
    /\ [][(/\ lastOp' = "Frame"
            /\ hoverId' # NULL
            /\ hoverId' # hoverId
            /\ tooltip'.display = "block")
           => \E h \in {HoleById(holes, hoverId')} :
                 /\ h # <<>>
                 /\ h[1].inclination # Absent =>
                       /\ tooltip'.html[1].inc # Absent
                       /\ tooltip'.html[1].inc[1] =
                              Max2(-90, Min2(0, h[1].inclination[1]))]_vars

(* the hole with inclination -200 is newly hovered: its tooltip shows -90 *)
C20_Witness ==
    /\ lastOp = "Frame"
    /\ hoverId = IdOf(1)
    /\ tooltip.display = "block"
    /\ Len(holes) = 1
    /\ holes[1].inclination = Num(-200)
    /\ tooltip.html = << buildTooltipHtml(holes[1]) >>
    /\ tooltip.html[1].inc = Num(-90)

----------------------------------------------------------------------------
(* Properties of the bounds, under SpecBounds *)

(* C21: the bounds of no holes are null and the cameras are then left as   *)
(* they are; the bounds of some holes are the smallest axis-aligned box    *)
(* that contains every collar and every bottom point                       *)
(* collar + direction * max(0, depth): the box contains these points and   *)
(* each of its six faces passes through one of them; for a single vertical *)
(* hole of depth D >= 0 at the origin the box is [0,0] x [-D,0] x [0,0].   *)
(* Opening a project fits the cameras to the centre of that box, and a     *)
(* focus to the centre of the box of the selected hole alone.              *)
C21_BoundsAreSmallestBox ==
    /\ [](/\ holes = <<>> => computeDrillholeBounds(holes) = <<>>
          /\ holes # <<>> =>
               \E b \in {computeDrillholeBounds(holes)} :
               \E pts \in {{holes[i].collar : i \in 1..Len(holes)} \cup
                           {Vec(holes[i].collar.x
                                  + (drillDirFromAzInc(holes[i]).x * Max2(0, holes[i].depth))
                                        \div 1000,
                                holes[i].collar.y
                                  + (drillDirFromAzInc(holes[i]).y * Max2(0, holes[i].depth))
                                        \div 1000,
                                holes[i].collar.z
                                  + (drillDirFromAzInc(holes[i]).z * Max2(0, holes[i].depth))
                                        \div 1000) : i \in 1..Len(holes)}} :
                   /\ b # <<>>
                   /\ \A p \in pts :
                         /\ b[1].min.x <= p.x /\ p.x <= b[1].max.x
                         /\ b[1].min.y <= p.y /\ p.y <= b[1].max.y
                         /\ b[1].min.z <= p.z /\ p.z <= b[1].max.z
                   /\ \E p \in pts : p.x = b[1].min.x
                   /\ \E p \in pts : p.x = b[1].max.x
                   /\ \E p \in pts : p.y = b[1].min.y
                   /\ \E p \in pts : p.y = b[1].max.y
                   /\ \E p \in pts : p.z = b[1].min.z
                   /\ \E p \in pts : p.z = b[1].max.z
                   /\ (/\ Len(holes) = 1
                       /\ holes[1].collar = Vec(0, 0, 0)
                       /\ holes[1].depth >= 0
                       /\ holes[1].inclination \in {Absent, Num(-90)})
                         => (/\ b[1].min = Vec(0, -holes[1].depth, 0)
                             /\ b[1].max = Vec(0, 0, 0)))
    /\ [][/\ (lastOp' = "applyProject" /\ holes' = <<>>)
                => (/\ cam3D' = cam3D /\ controls3D' = controls3D
                    /\ cam2D' = cam2D /\ controls2D' = controls2D)
          /\ (lastOp' = "applyProject" /\ holes' # <<>>)
                => (/\ controls3D'.target = BoxCenter(computeDrillholeBounds(holes')[1])
                    /\ controls2D'.target = BoxCenter(computeDrillholeBounds(holes')[1]))
          /\ (lastOp' = "focusSelected" /\ selection # NULL)
                => \E h \in {HoleById(holes, selection)} :
                      /\ h # <<>>
                      /\ controls3D'.target = BoxCenter(computeDrillholeBounds(h)[1])]_vars

(* a project of two holes was opened whose first hole, of depth 40, runs   *)
(* east at 60 degrees below the horizon: the box reaches down to the       *)
(* bottom of that hole, more than 34 m below its collar, and east to the   *)
(* collar of the second hole, and the cameras look at its centre           *)
C21_Witness ==
    /\ lastOp = "applyProject"
    /\ Len(holes) = 2
    /\ holes[1].azimuth = Num(90)
    /\ holes[1].inclination = Num(-60)
    /\ holes[1].depth = M(40)
    /\ computeDrillholeBounds(holes)[1].min.y < -M(34)
    /\ computeDrillholeBounds(holes)[1].max.x = M(30)
    /\ controls3D.target = BoxCenter(computeDrillholeBounds(holes)[1])

(* C22: a hole whose azimuth or inclination is missing, not a number, NaN  *)
(* or infinite is handled as if that azimuth were 0 and that inclination   *)
(* were -90: its direction, its bounds, the bounds of the project, the     *)
(* signature that triggers the rebuild and the child meshes built for it   *)
(* are those of the hole with the defaults written out, and a hole with    *)
(* neither angle valid points straight down. A depth that is not positive  *)
(* counts as length zero for the bounds: the box of such a hole is its     *)
(* collar alone. After a project is loaded the cameras look at the centre  *)
(* of the box of the holes with the defaults written out.                  *)
C22_InvalidOrientationIsVerticalDown ==
    /\ [](LET Valid(v) == Len(v) = 1
              Defaulted(h) ==
                  [h EXCEPT !.azimuth = IF Valid(h.azimuth) THEN h.azimuth ELSE Num(0),
                            !.inclination = IF Valid(h.inclination) THEN h.inclination
                                            ELSE Num(-90)]
              defaulted == [i \in 1..Len(holes) |-> Defaulted(holes[i])]
          IN /\ \A i \in 1..Len(holes) :
                    /\ drillDirFromAzInc(holes[i]) = drillDirFromAzInc(defaulted[i])
                    /\ (~Valid(holes[i].azimuth) /\ ~Valid(holes[i].inclination))
                           => drillDirFromAzInc(holes[i]) = Vec(0, -1000, 0)
                    /\ (~Valid(holes[i].azimuth))
                           => drillDirFromAzInc(holes[i]).x = 0
                    /\ computeDrillholeBounds(<< holes[i] >>)
                           = computeDrillholeBounds(<< defaulted[i] >>)
                    /\ holes[i].depth <= 0
                           => computeDrillholeBounds(<< holes[i] >>)
                                  = << [empty |-> FALSE, min |-> holes[i].collar,
                                        max |-> holes[i].collar] >>
                    /\ mounted => /\ Len(drillGroup) = Len(holes)
                                  /\ drillGroup[i].children
                                         = makeDrillholeMesh(defaulted[i], FALSE).children
             /\ computeDrillholeBounds(holes) = computeDrillholeBounds(defaulted)
             /\ projectSig(holes) = projectSig(defaulted))
    /\ [][(\E project \in BoundsProjects : Len(project) > 0 /\ applyProject(project))
            => LET Valid(v) == Len(v) = 1
                   defaulted ==
                       [i \in 1..Len(holes') |->
                           [holes'[i] EXCEPT
                               !.azimuth = IF Valid(@) THEN @ ELSE Num(0),
                               !.inclination = IF Valid(@) THEN @ ELSE Num(-90)]]
               IN controls3D'.target = BoxCenter(computeDrillholeBounds(defaulted)[1])
         ]_vars

(* a project was loaded whose first hole has a NaN azimuth and an          *)
(* inclination of -60, and a depth that is not positive; its mesh was      *)
(* built pointing north at 60 degrees below the horizon                    *)
C22_Witness ==
    /\ lastOp = "applyProject"
    /\ Len(holes) = 1
    /\ holes[1].azimuth = NotANumber
    /\ holes[1].inclination = Num(-60)
    /\ holes[1].depth < 0
    /\ Len(drillGroup) = 1
    /\ drillGroup[1].children[1].dir = drillDirAt(0, -60)
    /\ drillGroup[1].children[1].dir.z > 0
    /\ computeDrillholeBounds(holes)[1].max = holes[1].collar

----------------------------------------------------------------------------
(* Properties of the tooltip's orientation, under SpecAngles *)

(* C23: the tooltip built for a hole newly hovered shows the orientation   *)
(* the hole's mesh is placed with: the normalized azimuth and the clamped  *)
(* inclination, taken from the defaults 0 and -90 where the hole carries   *)
(* no finite value.                                                        *)
C23_TooltipShowsMeshOrientation ==
    [][(/\ lastOp' = "Frame"
        /\ hoverId' # NULL
        /\ hoverId' # hoverId
        /\ tooltip'.display = "block")
       => \E h \in {HoleById(holes, hoverId')} :
             /\ h # <<>>
             /\ tooltip'.html[1].az = Num(normalizeAzimuthDeg(azRawOf(h[1])))
             /\ tooltip'.html[1].inc = Num(clampInclinationDownDeg(incRawOf(h[1])))
             /\ drillDirAt(tooltip'.html[1].az[1], tooltip'.html[1].inc[1])
                    = drillDirFromAzInc(h[1])]_vars

----------------------------------------------------------------------------
(* Properties of the render loop and the active camera, under SpecLoop *)

(* C24: while the component is mounted exactly one tick callback is        *)
(* pending, the one whose handle rafRef holds, and none is pending once it *)
(* is unmounted; every animation frame runs exactly one tick; a step that  *)
(* is no animation frame, whether it changes the data, switches the view,  *)
(* resizes the window or moves the pointer, leaves the pending tick as it  *)
(* is while the component stays mounted.                                   *)
C24_OneRenderLoop ==
    /\ [](mounted =>
            /\ Cardinality({k \in 1..Len(rafQueue) : rafQueue[k].kind = "tick"}) = 1
            /\ rafRef # 0
            /\ \A k \in 1..Len(rafQueue) :
                   rafQueue[k].kind = "tick" => rafQueue[k] = TickCallback(rafRef))
    /\ [](~mounted => \A k \in 1..Len(rafQueue) : rafQueue[k].kind # "tick")
    /\ [][lastOp' = "Frame" => frameLog'.ticks = 1]_vars
    /\ [][(mounted /\ mounted' /\ lastOp' # "Frame")
            => /\ rafRef' = rafRef
               /\ frameLog'.ticks = 0
               /\ SelectSeq(rafQueue', LAMBDA cb : cb.kind = "tick")
                      = SelectSeq(rafQueue, LAMBDA cb : cb.kind = "tick")]_vars

(* a frame ran its one tick and a hover callback in the plan view, after   *)
(* a hole was created and the window resized: one tick is pending again    *)
C24_Witness ==
    /\ lastOp = "Frame"
    /\ mounted
    /\ view = "plan2d"
    /\ holes # <<>>
    /\ hostAspect = 200
    /\ frameLog.ticks = 1
    /\ frameLog.casts = 1
    /\ rafQueue = << TickCallback(rafRef) >>

(* C25: the tick of every animation frame advances the active controller,  *)
(* then draws the scene with the active camera, then turns the axes        *)
(* overlay as the active camera is turned, and does nothing else: the      *)
(* controller that is not active is never advanced. The active pair is the *)
(* one of the current view, so the first tick after a view switch already  *)
(* works with the camera of the new view.                                  *)
C25_TickUsesActivePair ==
    /\ [][lastOp' = "Frame"
            => /\ activeControls # NULL
               /\ activeCamera # NULL
               /\ frameLog'.steps = << << "update", activeControls >>,
                                       << "render", activeCamera >>,
                                       << "axes", activeCamera >> >>
               /\ \A k \in 1..Len(frameLog'.steps) :
                      frameLog'.steps[k][1] = "update"
                          => frameLog'.steps[k][2] = activeControls
               /\ frameLog'.steps
                      = IF view = "view3d"
                        THEN << << "update", "controls3D" >>, << "render", "cam3D" >>,
                                << "axes", "cam3D" >> >>
                        ELSE << << "update", "controls2D" >>, << "render", "cam2D" >>,
                                << "axes", "cam2D" >> >>]_vars
    /\ [][\A v \in {"view3d", "plan2d"} :
             (lastOp = "setView" /\ view = v /\ lastOp' = "Frame")
                 => frameLog'.steps[2]
                        = << "render", IF v = "view3d" THEN "cam3D" ELSE "cam2D" >>]_vars
    /\ [][lastOp' # "Frame" => frameLog'.steps = <<>>]_vars

(* a frame ran in the plan view, which was switched to from the 3D view:   *)
(* its tick advanced the plan controller and drew with the plan camera     *)
C25_Witness ==
    /\ lastOp = "Frame"
    /\ view = "plan2d"
    /\ trip3D.phase = "away"
    /\ holes # <<>>
    /\ frameLog.steps = << << "update", "controls2D" >>, << "render", "cam2D" >>,
                           << "axes", "cam2D" >> >>

(* C26: while the component is mounted, after the effects of every step    *)
(* the active camera and the active controller are the pair of the current *)
(* view: the perspective camera and its controller in view3d, the          *)
(* orthographic camera and its controller in plan2d, also right after a    *)
(* mount in the plan view; both cameras are there all the time, the        *)
(* perspective one and the orthographic one.                               *)
C26_ActivePairMatchesView ==
    /\ [](mounted =>
            /\ view = "view3d"
                   => (activeCamera = "cam3D" /\ activeControls = "controls3D")
            /\ view = "plan2d"
                   => (activeCamera = "cam2D" /\ activeControls = "controls2D")
            /\ view \in {"view3d", "plan2d"}
            /\ ~cam3D.isOrthographicCamera
            /\ cam2D.isOrthographicCamera)
    /\ [][lastOp' = "Mount"
            => /\ activeCamera' = (IF view = "view3d" THEN "cam3D" ELSE "cam2D")
               /\ activeControls'
                      = (IF view = "view3d" THEN "controls3D" ELSE "controls2D")]_vars

(* the component was mounted while the view is plan2d, with a hole in the  *)
(* project: the orthographic camera and its controller are active          *)
C26_Witness ==
    /\ lastOp = "Mount"
    /\ mounted
    /\ view = "plan2d"
    /\ holes # <<>>
    /\ activeCamera = "cam2D"
    /\ activeControls = "controls2D"
    /\ cam2D.isOrthographicCamera

----------------------------------------------------------------------------
(* Properties of a request for the view that is active, under SpecKeys *)

(* C27: the key 1 pressed in view3d, or the key 2 pressed in plan2d,       *)
(* outside a text field, changes nothing: the view, the active pair, both  *)
(* cameras and controllers, both saved states, the half-height, the scene  *)
(* and the data stay as they are, and neither the rebuild nor the auto-fit *)
(* has a changed dependency.                                               *)
C27_SameViewIsNoOp ==
    [][(\E ev \in KeyEvents :
           /\ ~ev.defaultPrevented
           /\ ~inTextField(ev.target)
           /\ \/ (ev.key = "1" /\ view = "view3d")
              \/ (ev.key = "2" /\ view = "plan2d")
           /\ onKeyDown(ev))
          => (/\ lastOp' = "setView"
              /\ UNCHANGED <<appVars, camVars, activeVars, sceneVars, listeners,
                             frameVars, hoverVars, mounted, hostAspect>>
              /\ ~RebuildDepsChanged(Props, Props')
              /\ ~AutoFitDepsChanged(Props, Props', FALSE)
              /\ Commit(Canvas, Props, Props', FALSE, hostAspect) = Canvas)]_vars

(* the key 1 was pressed in view3d with holes in the scene, after the user *)
(* had moved the perspective camera off the pose saved for it: a switch    *)
(* into view3d would have left the camera on the saved pose                *)
C27_Witness ==
    /\ lastOp = "setView"
    /\ view = "view3d"
    /\ holes # <<>>
    /\ activeCamera = "cam3D"
    /\ \E p \in Orbit3DPoses : cam3D.position = p.position /\ controls3D.target = p.target
    /\ camState3D.position # cam3D.position

----------------------------------------------------------------------------
(* Properties of the coordinates a hover is resolved at, under SpecHover *)

(* C28: a pointer-move that finds no hover callback pending schedules one  *)
(* that holds its own event; a pointer-move that finds one pending is      *)
(* discarded: the pending callbacks, the event the hover callback holds    *)
(* included, stay as they are. The frame that runs the hover callback      *)
(* casts one ray, at the coordinates of the event the callback was         *)
(* scheduled with, and shows the tooltip, if at all, at those coordinates; *)
(* a frame with no hover callback pending casts no ray.                    *)
C28_FirstMoveWins ==
    /\ [][(lastOp' = "onPointerMove" /\ hoverRAFRef # 0)
            => (rafQueue' = rafQueue /\ hoverRAFRef' = hoverRAFRef)]_vars
    /\ [][(lastOp' = "onPointerMove" /\ hoverRAFRef = 0)
            => /\ hoverRAFRef' # 0
               /\ rafQueue' = Append(rafQueue,
                                     [id |-> hoverRAFRef', kind |-> "hover",
                                      ev |-> rafQueue'[Len(rafQueue')].ev])
               /\ rafQueue'[Len(rafQueue')].ev.clientX = frameLog'.moveX[1]]_vars
    /\ [][(lastOp' = "Frame" /\ hoverRAFRef # 0)
            => \E k \in 1..Len(rafQueue) :
                  /\ rafQueue[k].id = hoverRAFRef
                  /\ frameLog'.castX = << rafQueue[k].ev.clientX >>
                  /\ tooltip'.display = "block"
                         => tooltip'.left = rafQueue[k].ev.clientX
                  /\ hoverId' = PickId(IntersectDrillGroup(drillGroup, rafQueue[k].ev),
                                       drillGroup)
                        \/ hoverId' = NULL]_vars
    /\ [][(lastOp' = "Frame" /\ hoverRAFRef = 0) => frameLog'.castX = <<>>]_vars

(* a pointer-move was discarded: a hover callback is pending that holds an *)
(* earlier event over a hole, at other coordinates than the move just      *)
(* handled                                                                 *)
C28_Witness ==
    /\ lastOp = "onPointerMove"
    /\ hoverRAFRef # 0
    /\ \E k \in 1..Len(rafQueue) :
          /\ rafQueue[k].id = hoverRAFRef
          /\ rafQueue[k].kind = "hover"
          /\ rafQueue[k].ev.ray # <<>>
          /\ rafQueue[k].ev.clientX # frameLog.moveX[1]

----------------------------------------------------------------------------
(* Properties of the keys pressed in a text field, under SpecAppKeys *)

(* C29: a key pressed while the focus is in a text input, a textarea or a  *)
(* content-editable element, whichever of the two keydown listeners        *)
(* handles it, leaves the view, the grid and terrain toggles, the cameras, *)
(* the controllers, the saved states and the active pair as they are.      *)
C29_TextFieldKeysChangeNothing ==
    [][(\/ \E ev \in AppKeyEvents : inTextField(ev.target) /\ AppRootOnKeyDown(ev)
        \/ \E ev \in KeyEvents : inTextField(ev.target) /\ onKeyDown(ev))
          => (/\ view' = view
              /\ showGrid' = showGrid
              /\ showTerrain' = showTerrain
              /\ UNCHANGED <<camVars, activeVars>>)]_vars

----------------------------------------------------------------------------
(* Properties of the selection under data changes, under SpecSelection *)

====
